---- MODULE Spec2Model ----
(***************************************************************************)
(* Model of the web research server (yshskl/mcp-webresearch).              *)
(*                                                                         *)
(* The repository holds the server in several variants.  The model follows *)
(* src/index.ts (the single-file server: "index") and, where they differ,  *)
(* the modular server made of src/session.ts, src/unnamed/part_000         *)
(* (server and browser modules), src/unnamed/part_005 (tools) and the      *)
(* utilities at the end of src/unnamed/part_006 ("modular").  The resource *)
(* manager and the signal handlers are also followed in the single-file    *)
(* playwright server src/unnamed/part_004 ("playwright").                  *)
(*                                                                         *)
(* Each component has its own specification over the shared variables:     *)
(*   SpecSession  the session store        (addResult, createSession, ...) *)
(*   SpecRetry    the retry executor       (withRetry)                     *)
(*   SpecNav      the navigation safety layer (safePageNavigation)         *)
(*   SpecShot     the screenshot budgeting (takeScreenshotWithSizeLimit)   *)
(*   SpecCapture  the same with the function of part_004, with fairness    *)
(*   SpecTool     the tool dispatcher      (CallToolRequestSchema handler) *)
(*   SpecExtract  the content extraction   (extractContentAsMarkdown)       *)
(*   SpecDom      the extraction function on the live document             *)
(*   SpecStore    the store with page results and their screenshots        *)
(*   SpecRead     the screenshot resources (ReadResourceRequestSchema)     *)
(*   SpecCalls    overlapping runs of the tool handler                     *)
(*   SpecBrowser  the resource manager (ensureBrowser, release)            *)
(*   SpecShutdown the signal handlers, with the fairness of the process    *)
(*   SpecExit     the signal handlers with screenshot files on disk        *)
(*   SpecReport   the uri a tool reports, read back (part_004)             *)
(***************************************************************************)
EXTENDS Integers, Sequences, FiniteSets, TLC

VARIABLES
    variant,         \* which variant of the code runs: "index", "modular" or "playwright"
    currentSession,  \* the module-level session: NoSession or [exists, query, results]
    notifications,   \* number of resources/list_changed notifications sent
    nextId,          \* identity of the next result object handed to addResult
    added,           \* history: ids handed to addResult since the session object was created
    rt,              \* the running withRetry call (a record, see RetryStart)
    site,            \* what the remote site serves for the navigation (see Sites)
    nav,             \* the running safePageNavigation call (a record, see NavIdle)
    shot,            \* the running takeScreenshotWithSizeLimit call (see ShotIdle)
    tool,            \* the running tools/call request (a record, see ToolIdle)
    files,           \* ids of the results whose screenshot is stored (in memory or on disk)
    ext,             \* the running content extraction (a record, see ExtractIdle)
    reply,           \* the answer to the last resources/read request (see NoReply)
    calls,           \* the tools/call requests being handled (see CallsIdle)
    rm,              \* the resource manager: references, browsers and pages (see RmAtStart)
    acq,             \* the handler runs that called ensureBrowser (see AcqIdle)
    rel,             \* the running release of browser and page (see RelIdle)
    proc,            \* the process and its signal handlers (see ProcRunning)
    dom              \* the document of the page extractions work on (see NoDocument)

vars == <<variant, currentSession, notifications, nextId, added, rt, site, nav, shot, tool,
          files, ext, reply, calls, rm, acq, rel, proc, dom>>

navVars == <<site, nav>>

sessionVars == <<currentSession, notifications, nextId, added, files>>

\* the components added to the server's surface: extraction, resource reads
\* and the handling of overlapping requests
surfaceVars == <<ext, reply, calls, rm, acq, rel, proc, dom>>

Variants == {"index", "modular"}

-----------------------------------------------------------------------------
(* Bounds of the model *)

\* results handed to addResult in one behaviour (more than the cap of 100)
MaxAdds == 103
\* largest attempt budget withRetry is called with
MaxRetriesArg == 5
\* deepest nesting of elements inside the body of a served page
MaxDepth == 2
\* most top-level elements of a markup handed to the markdown conversion
MaxNodes == 2
\* the first results added that may be page results (long content, screenshot)
MaxPageResults == 2
\* tools are called while at most this many results were created
MaxToolAdds == 2
\* most entries a search hands back
MaxEntries == 2
\* most tools/call requests the client has in flight at a time
MaxInFlight == 2
\* browsers launched in one behaviour
MaxBrowsers == 2
\* pages opened in one behaviour
MaxPages == 2
\* most child elements of the body of a loaded document
MaxBodyChildren == 3
\* extractions run on one loaded document
MaxExtractions == 2

-----------------------------------------------------------------------------
(* Session store: src/session.ts and src/index.ts:142-216 *)

MAX_RESULTS_PER_SESSION == 100
MAX_CONTENT_LENGTH == 100000
\* length of the marker '... (content truncated)' appended by addResult
TruncationMarkerLen == 23

\* currentSession === undefined
NoSession == [exists |-> FALSE, query |-> "", results |-> <<>>]
NoShot == "none"

Queries == {"Research Session", "Screenshot Session", "q"}

\* Array.prototype.shift: all but the first element
Shift(s) == IF Len(s) = 0 THEN s ELSE SubSeq(s, 2, Len(s))

\* the session object addResult creates when there is none
NewSession(q) == [exists |-> TRUE, query |-> q, results |-> <<>>]

\* index.ts:192-195 - the content cap applied to the result before it is stored
TruncateContent(r) ==
    IF r.content > MAX_CONTENT_LENGTH
    THEN [r EXCEPT !.content = MAX_CONTENT_LENGTH + TruncationMarkerLen]
    ELSE r

\* mutant: evicts only once the session already holds more than the cap
EvictOldest_OffByOne(results) ==
    IF Len(results) > MAX_RESULTS_PER_SESSION THEN Shift(results) ELSE results

\* session.ts:86-88, index.ts:198-199 - FIFO eviction before the push
EvictOldest(results) ==
    IF Len(results) >= MAX_RESULTS_PER_SESSION THEN Shift(results) ELSE results

\* does the call evict a result that carries a screenshot (index.ts:199-201)?
EvictsShot(results) ==
    /\ Len(results) >= MAX_RESULTS_PER_SESSION
    /\ Head(results).screenshot # NoShot

\* the session after addResult(r); sess may be NoSession
AddResultTo(sess, r) ==
    LET s == IF sess = NoSession THEN NewSession("Research Session") ELSE sess
        stored == IF variant = "index" THEN TruncateContent(r) ELSE r
    IN  [s EXCEPT !.results = Append(EvictOldest(s.results), stored)]

\* the screenshot a result carries was stored (kept in memory, index.ts:864,
\* or saved to disk, part_005:307) before the result is handed to addResult
OwnShot(r) == IF r.screenshot # NoShot THEN {r.id} ELSE {}

\* index.ts:199-204 deletes the screenshot data of the evicted result;
\* session.ts:86-88 and part_004:236-238 only shift it out and leave its file
ReleasedByEviction(results) ==
    IF variant = "index" /\ EvictsShot(results) THEN {Head(results).id} ELSE {}

\* session.ts:75-93 and index.ts:182-216
addResult(r) ==
    /\ currentSession' = AddResultTo(currentSession, r)
    /\ files' = (files \cup OwnShot(r)) \ ReleasedByEviction(currentSession.results)
    /\ notifications' =
         IF /\ variant = "index"
            /\ currentSession # NoSession
            /\ EvictsShot(currentSession.results)
         THEN notifications + 1
         ELSE notifications
    /\ added' = IF currentSession = NoSession THEN <<r.id>> ELSE Append(added, r.id)

\* contents (lengths) of the results the session spec hands to addResult
SessionContents == {20}

\* an addResult call with a fresh result object
AddResult ==
    /\ nextId <= MaxAdds
    /\ \E c \in SessionContents :
         addResult([id |-> nextId, content |-> c, screenshot |-> NoShot])
    /\ nextId' = nextId + 1
    /\ UNCHANGED <<variant, surfaceVars, rt, navVars, shot, tool>>

\* the screenshot reference of a result that has one: the base64 data of
\* index.ts:73 or the path of the file, session.ts:29
Png == "png"

\* lengths of the markdown extracted from a visited page
PageContents == {20, MAX_CONTENT_LENGTH, MAX_CONTENT_LENGTH + 1}

\* an addResult call with the result of a visited page or of a screenshot
\* (index.ts:853-873, 923-929; part_005:315-324): it may carry a screenshot,
\* and its content is as long as the page's text.  Page results are among
\* the first MaxPageResults results added.
AddPageResult ==
    /\ nextId <= MaxPageResults
    /\ \E c \in PageContents, s \in {NoShot, Png} :
         addResult([id |-> nextId, content |-> c, screenshot |-> s])
    /\ nextId' = nextId + 1
    /\ UNCHANGED <<variant, surfaceVars, rt, navVars, shot, tool>>

\* session.ts:103-109
createSession(q) ==
    /\ currentSession' = NewSession(q)
    /\ added' = <<>>
    /\ files' = files

CreateSession ==
    /\ variant = "modular"
    /\ \E q \in Queries : createSession(q)
    /\ UNCHANGED <<variant, surfaceVars, notifications, nextId, rt, navVars, shot, tool>>

\* session.ts:118-120 - "It does not perform any cleanup of associated files"
clearSession ==
    /\ currentSession' = NoSession
    /\ added' = <<>>
    /\ files' = files

ClearSession ==
    /\ variant = "modular"
    /\ clearSession
    /\ UNCHANGED <<variant, surfaceVars, notifications, nextId, rt, navVars, shot, tool>>

\* index.ts:909-916 - take_screenshot creates the session itself when there is none
InitScreenshotSession ==
    /\ variant = "index"
    /\ currentSession = NoSession
    /\ currentSession' = NewSession("Screenshot Session")
    /\ added' = <<>>
    /\ UNCHANGED <<variant, surfaceVars, files, notifications, nextId, rt, navVars, shot, tool>>

-----------------------------------------------------------------------------
(* Retry executor: index.ts:158-179 (the same at part_004:201-222) and the  *)
(* exported utility at part_006:618-641                                     *)

MAX_RETRIES == 3
RETRY_DELAY == 1000

\* `let lastError` before the first failure
Undefined == [kind |-> "undefined", at |-> 0]
\* the Error object the k-th invocation of the operation rejects with
OpError(k) == [kind |-> "Error", at |-> k]
\* part_006:640 - new Error('All retry attempts failed')
AllFailedError == [kind |-> "All retry attempts failed", at |-> 0]
\* the value the k-th invocation of the operation resolves with
OpValue(k) == [kind |-> "value", at |-> k]

RetryIdle ==
    [pc |-> "idle", retries |-> 0, delay |-> 0, i |-> 0, log |-> <<>>,
     lastError |-> Undefined, waits |-> <<>>, result |-> Undefined]

\* delays the callers pass: the default and the 2 s of index.ts:733
Delays == {RETRY_DELAY, 2 * RETRY_DELAY}

\* 2^k
RECURSIVE Pow2(_)
Pow2(k) == IF k <= 0 THEN 1 ELSE 2 * Pow2(k - 1)

\* part_006:627 - Math.pow(2, attempt - 1) * 1000
BackoffDelay(attempt) == Pow2(attempt - 1) * 1000

\* mutant: the loop allows one attempt more than the budget
LoopContinues_OneMore(r) == r.i <= r.retries

\* index.ts:166, part_006:622 - the loop condition i < retries
LoopContinues(r) == r.i < r.retries

\* mutant: the last error is wrapped in a new error
ThrownValue_Wrapped(r) == [kind |-> "wrapped", at |-> r.lastError.at]

\* index.ts:178 `throw lastError!`; part_006:640 `throw lastError || new Error(...)`
ThrownValue(r) ==
    IF variant = "modular" /\ r.lastError = Undefined
    THEN AllFailedError
    ELSE r.lastError

\* control reaches the head of the for loop with counter r.i
EnterIteration(r) ==
    IF LoopContinues(r)
    THEN IF variant = "modular" /\ r.i > 0
         THEN [r EXCEPT !.pc = "wait"]     \* part_006:625-629
         ELSE [r EXCEPT !.pc = "call"]
    ELSE [r EXCEPT !.pc = "thrown", !.result = ThrownValue(r)]

\* the catch block: index.ts:169-175, part_006:633-636
AfterFailure(r, e) ==
    LET c == [r EXCEPT !.lastError = e]
    IN  IF variant = "index"
        THEN IF c.i < c.retries - 1
             THEN [c EXCEPT !.pc = "wait"]
             ELSE EnterIteration([c EXCEPT !.i = c.i + 1])
        ELSE EnterIteration([c EXCEPT !.i = c.i + 1])

\* withRetry(operation, n, d) is called; part_006's takes no delay
RetryStart ==
    /\ rt.pc = "idle"
    /\ \E n \in 0..MaxRetriesArg, d \in Delays :
         /\ variant = "modular" => d = RETRY_DELAY
         /\ rt' = EnterIteration([RetryIdle EXCEPT !.retries = n, !.delay = d])
    /\ UNCHANGED <<variant, surfaceVars, sessionVars, navVars, shot, tool>>

\* `return await operation()`: the operation resolves or rejects
RetryInvoke ==
    /\ rt.pc = "call"
    /\ LET k == Len(rt.log) + 1 IN
       \/ rt' = [rt EXCEPT !.pc = "returned", !.result = OpValue(k),
                           !.log = Append(rt.log, OpValue(k))]
       \/ rt' = AfterFailure([rt EXCEPT !.log = Append(rt.log, OpError(k))], OpError(k))
    /\ UNCHANGED <<variant, surfaceVars, sessionVars, navVars, shot, tool>>

\* the timer of `await new Promise(resolve => setTimeout(resolve, delay))` fires
RetryWait ==
    /\ rt.pc = "wait"
    /\ rt' = IF variant = "index"
             THEN EnterIteration([rt EXCEPT !.waits = Append(rt.waits, rt.delay),
                                            !.i = rt.i + 1])
             ELSE [rt EXCEPT !.waits = Append(rt.waits, BackoffDelay(rt.i)),
                             !.pc = "call"]
    /\ UNCHANGED <<variant, surfaceVars, sessionVars, navVars, shot, tool>>

-----------------------------------------------------------------------------
(* Navigation safety layer: safePageNavigation, index.ts:219-307 and        *)
(* part_000:656-741                                                         *)

\* ids of the bot-challenge elements looked for (index.ts:251-257, part_000:693-699)
BotProtectionSelectors ==
    {"challenge-running", "cf-challenge-running", "px-captcha",
     "ddos-protection", "waf-challenge-html"}

\* index.ts:294, part_000:702-708 - phrases looked for in the lower-cased title
SuspiciousTitles ==
    {<<"security", "check">>, <<"ddos", "protection">>, <<"please", "wait">>,
     <<"just", "a", "moment">>, <<"attention", "required">>}

\* index.ts:289 - minimum length of the collected text, in characters
MinTextLength == 1000
\* part_000:734 - minimum number of words of the body's innerText
MinWordCount == 10

\* titles are sequences of words; String.prototype.toLowerCase word by word
LowerWord(w) ==
    CASE w = "Just" -> "just"
      [] w = "ATTENTION" -> "attention"
      [] w = "REQUIRED" -> "required"
      [] w = "Example" -> "example"
      [] w = "Domain" -> "domain"
      [] OTHER -> w

ToLowerCase(t) == [i \in 1..Len(t) |-> LowerWord(t[i])]

\* String.prototype.includes, on sequences of words
Includes(t, phrase) ==
    \E i \in 1..Len(t) :
        /\ i + Len(phrase) - 1 <= Len(t)
        /\ SubSeq(t, i, i + Len(phrase) - 1) = phrase

\* index.ts:295, part_000:702-708
IsSuspiciousTitle(t) ==
    \E phrase \in SuspiciousTitles : Includes(ToLowerCase(t), phrase)

(* The body of the loaded document is a chain of nested elements:          *)
(* levels[1] is the number of words in text nodes placed directly in       *)
(* <body>, levels[d+1] the number of words placed directly in the element  *)
(* at depth d, which contains the element at depth d+1.  Words are         *)
(* wordLen characters long and separated by single blanks.                 *)

RECURSIVE SumFrom(_, _)
SumFrom(levels, j) ==
    IF j > Len(levels) THEN 0 ELSE levels[j] + SumFrom(levels, j + 1)

\* words of element.textContent for the element at depth d (d = 0: the body)
TextContentWords(levels, d) == SumFrom(levels, d + 1)

\* length in characters of w words joined by single blanks
CharLength(w, wordLen) == IF w = 0 THEN 0 ELSE w * wordLen + (w - 1)

RECURSIVE JoinedLength(_, _, _)
\* length of the texts of the elements at depth d.. joined by blanks, after
\* .replace(/\s+/g, ' ').trim() (index.ts:265-274)
JoinedLength(levels, wordLen, d) ==
    IF d > Len(levels) - 1 THEN 0
    ELSE LET here == CharLength(TextContentWords(levels, d), wordLen)
             rest == JoinedLength(levels, wordLen, d + 1)
         IN  IF here = 0 THEN rest
             ELSE IF rest = 0 THEN here
             ELSE here + 1 + rest

\* index.ts:265-274 - document.body.getElementsByTagName('*') are the
\* elements inside the body: the body's own text nodes are not visited
MeaningfulTextLength(s) == JoinedLength(s.levels, s.wordLen, 1)

\* part_000:711-712 - document.body.innerText.trim().split(/\s+/).length
\* (''.split(/\s+/) is [''], of length 1)
InnerTextWordCount(s) ==
    LET w == TextContentWords(s.levels, 0) IN IF w = 0 THEN 1 ELSE w

\* index.ts:260-262, part_000:693-699
HasBotProtection(s) == s.ids \cap BotProtectionSelectors # {}

NoError == [kind |-> "none", timeoutWord |-> FALSE]
NavError(k, t) == [kind |-> k, timeoutWord |-> t]

\* mutant: the content check is made before the challenge markers are looked at
ValidateIndex_ContentFirst(s) ==
    IF MeaningfulTextLength(s) < MinTextLength
    THEN NavError("InsufficientContent", FALSE)
    ELSE IF HasBotProtection(s)
    THEN NavError("BotProtection", FALSE)
    ELSE IF IsSuspiciousTitle(s.title)
    THEN NavError("SuspiciousTitle", FALSE)
    ELSE NoError

\* index.ts:283-297 - the checks on the snapshot, in the code's order
ValidateIndex(s) ==
    IF HasBotProtection(s)
    THEN NavError("BotProtection", FALSE)
    ELSE IF MeaningfulTextLength(s) < MinTextLength
    THEN NavError("InsufficientContent", FALSE)
    ELSE IF IsSuspiciousTitle(s.title)
    THEN NavError("SuspiciousTitle", FALSE)
    ELSE NoError

\* part_000:723-736
ValidateModular(s) ==
    IF HasBotProtection(s)
    THEN NavError("BotProtection", FALSE)
    ELSE IF IsSuspiciousTitle(s.title)
    THEN NavError("SuspiciousTitle", FALSE)
    ELSE IF InnerTextWordCount(s) < MinWordCount
    THEN NavError("InsufficientContent", FALSE)
    ELSE NoError

Validate(s) == IF variant = "index" THEN ValidateIndex(s) ELSE ValidateModular(s)

\* the outcome of page.goto and of the status check:
\* index.ts:222-236, part_000:667-681
GotoError(s) ==
    CASE s.goto = "timeout" -> NavError("GotoTimeout", TRUE)
      [] s.goto = "error" -> NavError("GotoFailed", FALSE)
      [] s.goto = "null" ->
            IF variant = "modular" THEN NavError("NoResponse", FALSE) ELSE NoError
      [] OTHER ->
            IF s.status >= 400 THEN NavError("Http", s.statusTextTimeout) ELSE NoError

NavIdle ==
    [pc |-> "idle", gotoCalls |-> 0, cookies |-> 0, ok |-> FALSE,
     swallowed |-> FALSE, error |-> NoError]

\* the catch block: index.ts:299-306 returns on an error whose message
\* contains 'timeout' and rethrows the others; part_000:738-741 rethrows all
Catch(n, e) ==
    IF variant = "index" /\ e.timeoutWord
    THEN [n EXCEPT !.pc = "done", !.ok = TRUE, !.swallowed = TRUE]
    ELSE [n EXCEPT !.pc = "done", !.ok = FALSE, !.error = e]

\* safePageNavigation is entered; part_000:659-664 pre-seeds the consent cookie
NavStart ==
    /\ nav.pc = "idle"
    /\ nav' = [nav EXCEPT !.pc = "goto",
                          !.cookies = IF variant = "modular" THEN 1 ELSE 0]
    /\ UNCHANGED <<variant, surfaceVars, sessionVars, rt, site, shot, tool>>

\* page.goto settles and the response is checked
NavGoto ==
    /\ nav.pc = "goto"
    /\ LET n == [nav EXCEPT !.gotoCalls = nav.gotoCalls + 1]
           e == GotoError(site)
       IN  nav' = IF e = NoError THEN [n EXCEPT !.pc = "settle"] ELSE Catch(n, e)
    /\ UNCHANGED <<variant, surfaceVars, sessionVars, rt, site, shot, tool>>

\* index.ts:238-246: wait for the body (a timeout is only logged), then the
\* 500 ms pause; part_000:683-689: network idle raced against a 5 s timer
NavSettle ==
    /\ nav.pc = "settle"
    /\ nav' = [nav EXCEPT !.pc = "validate"]
    /\ UNCHANGED <<variant, surfaceVars, sessionVars, rt, site, shot, tool>>

\* page.evaluate takes the snapshot and the checks are made on it
NavValidate ==
    /\ nav.pc = "validate"
    /\ LET e == Validate(site)
       IN  nav' = IF e = NoError THEN [nav EXCEPT !.pc = "done", !.ok = TRUE]
                  ELSE Catch(nav, e)
    /\ UNCHANGED <<variant, surfaceVars, sessionVars, rt, site, shot, tool>>

\* titles the site may serve
Titles == {<<"Example", "Domain">>, <<"Just", "a", "moment">>, <<"ATTENTION", "REQUIRED">>}

\* numbers of words a text node holds: none, a stub, an article
WordCounts == {0, 5, 2000}

\* lengths of a word, in characters
WordLengths == {5, 200}

\* layouts of the body: its own text and up to MaxDepth nested elements
Layouts == UNION {[1..n -> WordCounts] : n \in 1..(MaxDepth + 1)}

NoSite ==
    [goto |-> "none", status |-> 0, statusTextTimeout |-> FALSE, ids |-> {},
     title |-> <<>>, levels |-> <<>>, wordLen |-> 0]

\* a page that loaded: status below 400
LoadedSites ==
    [goto : {"response"}, status : {200, 399}, statusTextTimeout : {FALSE},
     ids : {{}} \cup {{m} : m \in BotProtectionSelectors \cup {"content"}},
     title : Titles, levels : Layouts, wordLen : WordLengths]

\* a navigation that failed, answered with an error status or with no response
FailedSites ==
    [goto : {"response"}, status : {400, 404, 503}, statusTextTimeout : BOOLEAN,
     ids : {{}}, title : {<<"Example", "Domain">>}, levels : {<<0, 2000>>},
     wordLen : {5}]
    \cup
    [goto : {"timeout", "error", "null"}, status : {0}, statusTextTimeout : {FALSE},
     ids : {{}, {"px-captcha"}}, title : {<<"Example", "Domain">>},
     levels : {<<0, 2000>>, <<5>>}, wordLen : {5}]

Sites == LoadedSites \cup FailedSites

-----------------------------------------------------------------------------
(* Screenshot budgeting: takeScreenshotWithSizeLimit, index.ts:310-438      *)

MAX_SCREENSHOT_DIMENSION == 10000
MIN_SCREENSHOT_DIMENSION == 100
\* index.ts:312 - default of maxSizeBytes
DefaultMaxSizeBytes == 500000
\* index.ts:372 - const maxAttempts = 5
MaxResizeAttempts == 5
\* index.ts:409-410 - the box of the final pass
FinalWidth == 640
FinalHeight == 480
\* scale factors are kept in thousandths (the code uses floating point)
ScaleUnit == 1000

Min(a, b) == IF a <= b THEN a ELSE b
Max(a, b) == IF a >= b THEN a ELSE b

\* Math.floor(Math.sqrt(x)) for 0 <= x <= ScaleUnit * ScaleUnit
Isqrt(x) == CHOOSE r \in 0..ScaleUnit : r * r <= x /\ x < (r + 1) * (r + 1)

\* length of the base64 string that encodes b bytes (page.screenshot, index.ts:336-340)
Base64Length(b) == 4 * ((b + 2) \div 3)

\* index.ts:348 - Math.ceil(screenshot.length * 0.75)
ApproximateBytes(len) == (3 * len + 3) \div 4

\* index.ts:370 - Math.sqrt(maxSizeBytes / approximateBytes) * 0.8, in
\* thousandths; called with approximateBytes > maxSizeBytes only
InitialScale(maxSizeBytes, approximateBytes) ==
    (8 * Isqrt(((maxSizeBytes * ScaleUnit) \div approximateBytes) * ScaleUnit)) \div 10

\* index.ts:402 - scale *= 0.7
NextScale(scale) == (7 * scale) \div 10

\* index.ts:377-378 - Math.max(MIN, Math.floor(original * scale))
TargetDimension(original, scale) ==
    Max(MIN_SCREENSHOT_DIMENSION, (original * scale) \div ScaleUnit)

\* a / b rounded to the nearest integer, at least 1
RoundDiv(a, b) == Max(1, (2 * a + b) \div (2 * b))

\* sharp's resize(w, h, {fit: 'inside', withoutEnlargement: true}) of an
\* image of ow x oh pixels (index.ts:382-386, 407-415): the largest image of
\* the same aspect ratio that fits in the box, never larger than the original
ResizeInside(ow, oh, w, h) ==
    IF w >= ow /\ h >= oh THEN [w |-> ow, h |-> oh]
    ELSE IF w * oh <= h * ow
    THEN [w |-> w, h |-> RoundDiv(oh * w, ow)]
    ELSE [w |-> RoundDiv(ow * h, oh), h |-> h]

\* mutant: a page is refused only when both dimensions are too small
DimensionsTooSmall_Both(d) ==
    d.w < MIN_SCREENSHOT_DIMENSION /\ d.h < MIN_SCREENSHOT_DIMENSION

\* index.ts:325 - the minimum-dimension check
DimensionsTooSmall(d) ==
    d.w < MIN_SCREENSHOT_DIMENSION \/ d.h < MIN_SCREENSHOT_DIMENSION

\* index.ts:319-322 - the extent read in the page, capped at the maximum
MeasuredDimensions(page) ==
    [w |-> Min(page.w, MAX_SCREENSHOT_DIMENSION),
     h |-> Min(page.h, MAX_SCREENSHOT_DIMENSION)]

NoImage == [w |-> 0, h |-> 0, bytes |-> 0]

\* page.viewportSize() of a page whose viewport was never set
NoViewport == [w |-> 0, h |-> 0]

ShotIdle ==
    [pc |-> "idle", page |-> [w |-> 0, h |-> 0], maxSizeBytes |-> 0,
     viewportCalls |-> 0, captures |-> 0, resizes |-> 0,
     raw |-> NoImage, scale |-> 0, attempts |-> 0,
     image |-> NoImage, isRaw |-> FALSE, error |-> "none",
     viewport |-> NoViewport]

\* scrollWidth / scrollHeight of the pages captured
Extents == {50, 100, 3000, 4000, 10000, 12000}

\* budgets the function is called with: the default and a smaller one
MaxSizeArgs == {DefaultMaxSizeBytes, 50000}

\* sizes in bytes of the PNG a full-page capture yields (content dependent)
RawSizes == {1000, 499999, 500000, 500001, 2000000, 48000000}

\* sizes in bytes of the PNG a resize pass yields (content dependent)
ResizedSizes(maxSizeBytes) ==
    {maxSizeBytes \div 2, maxSizeBytes, maxSizeBytes + 1, 4 * maxSizeBytes}

\* index.ts:318-327 - read the dimensions and check the minimum
ShotMeasure ==
    /\ shot.pc = "measure"
    /\ shot' = IF DimensionsTooSmall(MeasuredDimensions(shot.page))
               THEN [shot EXCEPT !.pc = "thrown", !.error = "TooSmall"]
               ELSE [shot EXCEPT !.pc = "viewport"]
    /\ UNCHANGED <<variant, surfaceVars, sessionVars, rt, navVars, tool>>

\* index.ts:329-333 - page.setViewport
ShotSetViewport ==
    /\ shot.pc = "viewport"
    /\ shot' = [shot EXCEPT !.pc = "capture", !.viewportCalls = shot.viewportCalls + 1]
    /\ UNCHANGED <<variant, surfaceVars, sessionVars, rt, navVars, tool>>

\* index.ts:335-370 - the full-page capture, the size check on it, and the
\* initial scale when it is over the budget
ShotCapture ==
    /\ shot.pc = "capture"
    /\ \/ shot' = [shot EXCEPT !.pc = "thrown", !.error = "CaptureFailed",
                               !.captures = shot.captures + 1]
       \/ \E b \in RawSizes :
            LET raw == [w |-> shot.page.w, h |-> shot.page.h, bytes |-> b]
                approximateBytes == ApproximateBytes(Base64Length(b))
                c == [shot EXCEPT !.captures = shot.captures + 1, !.raw = raw]
            IN  shot' =
                  IF approximateBytes <= shot.maxSizeBytes
                  THEN [c EXCEPT !.pc = "returned", !.image = raw, !.isRaw = TRUE]
                  ELSE [c EXCEPT !.pc = "resize",
                                 !.scale = InitialScale(shot.maxSizeBytes, approximateBytes)]
    /\ UNCHANGED <<variant, surfaceVars, sessionVars, rt, navVars, tool>>

\* index.ts:375-404 - one pass of the resize loop
ShotResize ==
    /\ shot.pc = "resize"
    /\ shot.attempts < MaxResizeAttempts
    /\ \E b \in ResizedSizes(shot.maxSizeBytes) :
         LET newWidth == TargetDimension(shot.raw.w, shot.scale)
             newHeight == TargetDimension(shot.raw.h, shot.scale)
             out == ResizeInside(shot.raw.w, shot.raw.h, newWidth, newHeight)
             resized == [w |-> out.w, h |-> out.h, bytes |-> b]
             c == [shot EXCEPT !.resizes = shot.resizes + 1]
         IN  shot' =
               IF b <= shot.maxSizeBytes
               THEN [c EXCEPT !.pc = "returned", !.image = resized]
               ELSE [c EXCEPT !.scale = NextScale(shot.scale),
                              !.attempts = shot.attempts + 1,
                              !.pc = IF shot.attempts + 1 < MaxResizeAttempts
                                     THEN "resize" ELSE "final"]
    /\ UNCHANGED <<variant, surfaceVars, sessionVars, rt, navVars, tool>>

\* index.ts:406-424 - the final pass, returned whatever its size
ShotFinal ==
    /\ shot.pc = "final"
    /\ \E b \in ResizedSizes(shot.maxSizeBytes) :
         LET out == ResizeInside(shot.raw.w, shot.raw.h,
                                 Max(MIN_SCREENSHOT_DIMENSION, FinalWidth),
                                 Max(MIN_SCREENSHOT_DIMENSION, FinalHeight))
         IN  shot' = [shot EXCEPT !.pc = "returned",
                                  !.resizes = shot.resizes + 1,
                                  !.image = [w |-> out.w, h |-> out.h, bytes |-> b]]
    /\ UNCHANGED <<variant, surfaceVars, sessionVars, rt, navVars, tool>>

\* takeScreenshotWithSizeLimit of part_004:479-563: the viewport is shrunk
\* and the page captured again while the capture is too long
MAX_SIZE == 5242880
MAX_DIMENSION == 1920
MIN_DIMENSION == 800
MAX_ATTEMPTS == 3
\* scale factors of part_004 are kept in millionths
FactorUnit == 1000000

\* part_004:507 - Math.pow(0.75, attempts + 1), in millionths
ScaleFactor(attempts) ==
    CASE attempts = 0 -> 750000
      [] attempts = 1 -> 562500
      [] OTHER -> 421875

\* part_004:508-513 - Math.round(side * scaleFactor), kept within the bounds
ScaledSide(side, factor) ==
    Max(MIN_DIMENSION, Min(MAX_DIMENSION, (side * factor + FactorUnit \div 2) \div FactorUnit))

\* mutant: the page reports no viewport
ViewportSize_Null(sh) == NoViewport

\* part_004:503 - page.viewportSize(): the size last given to setViewportSize
ViewportSize(sh) == sh.viewport

\* lengths in bytes of the PNG a viewport capture yields (content dependent)
ViewportSizes == {1000000, MAX_SIZE, MAX_SIZE + 1}

\* the capture of the current viewport, b bytes long
Captured(sh, b) ==
    [sh EXCEPT !.captures = sh.captures + 1,
               !.image = [w |-> sh.viewport.w, h |-> sh.viewport.h, bytes |-> b]]

\* part_004:484-499 - the viewport is set to 1600x900 and the page captured
PwCapture ==
    /\ shot.pc = "pwCapture"
    /\ LET v == [shot EXCEPT !.viewport = [w |-> 1600, h |-> 900],
                             !.viewportCalls = shot.viewportCalls + 1]
       IN  \/ shot' = [v EXCEPT !.pc = "thrown", !.error = "CaptureFailed",
                                !.captures = shot.captures + 1]
           \/ \E b \in ViewportSizes :
                shot' = [Captured(v, b) EXCEPT !.pc = "pwLoop",
                                               !.raw = Captured(v, b).image,
                                               !.isRaw = TRUE]
    /\ UNCHANGED <<variant, surfaceVars, sessionVars, rt, navVars, tool>>

\* part_004:501-533 - the loop condition and one pass of the loop body;
\* `continue` at part_004:504 starts the next pass with attempts unchanged
PwLoop ==
    /\ shot.pc = "pwLoop"
    /\ IF shot.image.bytes > MAX_SIZE /\ shot.attempts < MAX_ATTEMPTS
       THEN IF ViewportSize(shot) = NoViewport
            THEN shot' = shot
            ELSE LET factor == ScaleFactor(shot.attempts)
                     v == [shot EXCEPT
                             !.viewport = [w |-> ScaledSide(ViewportSize(shot).w, factor),
                                           h |-> ScaledSide(ViewportSize(shot).h, factor)],
                             !.viewportCalls = shot.viewportCalls + 1,
                             !.resizes = shot.resizes + 1,
                             !.isRaw = FALSE]
                 IN  \/ shot' = [v EXCEPT !.pc = "thrown", !.error = "CaptureFailed",
                                          !.captures = shot.captures + 1]
                     \/ \E b \in ViewportSizes :
                          shot' = [Captured(v, b) EXCEPT !.attempts = shot.attempts + 1]
       ELSE shot' = [shot EXCEPT !.pc = IF shot.image.bytes > MAX_SIZE
                                        THEN "pwFinal" ELSE "returned"]
    /\ UNCHANGED <<variant, surfaceVars, sessionVars, rt, navVars, tool>>

\* part_004:535-559 - the last capture, at the minimum viewport; it is
\* refused when it is still too long
PwFinal ==
    /\ shot.pc = "pwFinal"
    /\ LET v == [shot EXCEPT !.viewport = [w |-> MIN_DIMENSION, h |-> MIN_DIMENSION],
                             !.viewportCalls = shot.viewportCalls + 1,
                             !.resizes = shot.resizes + 1,
                             !.isRaw = FALSE]
       IN  \/ shot' = [v EXCEPT !.pc = "thrown", !.error = "CaptureFailed",
                                !.captures = shot.captures + 1]
           \/ \E b \in ViewportSizes :
                shot' = IF b > MAX_SIZE
                        THEN [Captured(v, b) EXCEPT !.pc = "thrown", !.error = "TooLarge"]
                        ELSE [Captured(v, b) EXCEPT !.pc = "returned"]
    /\ UNCHANGED <<variant, surfaceVars, sessionVars, rt, navVars, tool>>

-----------------------------------------------------------------------------
(* Tool dispatcher: the CallToolRequestSchema handler, index.ts:691-962 and *)
(* part_000:254-313 with visitPage of part_005:206-337                      *)

\* names a tools/call request may carry: the three of index.ts:84-116 and one
\* the server does not know
ToolNames == {"search_google", "visit_page", "take_screenshot", "extract_content"}

KnownTools == {"search_google", "visit_page", "take_screenshot"}

\* the url argument, by what `new URL(url).protocol` yields; "invalid" when
\* the constructor throws
Protocols == {"http:", "https:", "file:", "ftp:", "javascript:", "invalid"}

\* index.ts:671-682 (the same at part_004:813-824)
IsValidUrlIndex(protocol) == protocol = "http:" \/ protocol = "https:"

\* part_006:533-541 - any string the URL constructor accepts
IsValidUrlModular(protocol) == protocol # "invalid"

isValidUrl(protocol) ==
    IF variant = "index" THEN IsValidUrlIndex(protocol) ELSE IsValidUrlModular(protocol)

ToolIdle ==
    [pc |-> "idle", name |-> "", hasArguments |-> FALSE, protocol |-> "invalid",
     pageAcquired |-> FALSE, attempts |-> 0, gotoCalls |-> 0,
     outcome |-> "none", message |-> "none",
     takeScreenshot |-> FALSE, before |-> <<>>, entries |-> <<>>, trace |-> <<>>,
     stages |-> <<>>, sessionBefore |-> NoSession]

\* the handler returns a result; isError is set for a failure
Returns(t, message) ==
    [t EXCEPT !.pc = "done",
              !.outcome = IF message = "ok" THEN "result" ELSE "isError",
              !.message = message]

\* the handler rejects: the protocol layer answers with an error response
Rejects(t, message) ==
    [t EXCEPT !.pc = "done", !.outcome = "protocolError", !.message = message]

\* a failure raised inside the modular handler's try block (part_000:256-312)
\* or inside a tool's try block of index.ts is turned into a result
CaughtFailure(t, message) == Returns(t, message)

\* a tools/call request arrives
ToolCall ==
    /\ tool.pc = "idle"
    /\ nextId <= MaxToolAdds
    /\ \E n \in ToolNames, a \in BOOLEAN, p \in Protocols, f \in BOOLEAN :
         /\ (n # "visit_page" \/ ~a) => (p = "invalid" /\ ~f)
         /\ tool' = [ToolIdle EXCEPT !.pc = "ensureBrowser", !.name = n,
                                     !.hasArguments = a, !.protocol = p,
                                     !.takeScreenshot = f,
                                     !.before = currentSession.results,
                                     !.sessionBefore = currentSession]
    /\ UNCHANGED <<variant, surfaceVars, sessionVars, rt, navVars, shot>>

\* index.ts:693 and part_000:255 - `await ensureBrowser()`, before any try
\* block; ensureBrowser fails with McpError(InternalError) (index.ts:1211) or
\* Error (part_000:489) when the browser or the page cannot be set up
ToolEnsureBrowser ==
    /\ tool.pc = "ensureBrowser"
    /\ \/ tool' = [tool EXCEPT !.pc = "dispatch", !.pageAcquired = TRUE]
       \/ tool' = Rejects(tool, "Failed to initialize browser")
    /\ UNCHANGED <<variant, surfaceVars, sessionVars, rt, navVars, shot>>

\* index.ts:695-699, 817-833, 955-960
DispatchIndex(t) ==
    CASE t.name \notin KnownTools -> Rejects(t, "Unknown tool")
      [] t.name = "take_screenshot" -> [t EXCEPT !.pc = "body"]
      [] ~t.hasArguments -> Rejects(t, "TypeError")     \* destructuring undefined
      [] t.name = "visit_page" /\ ~isValidUrl(t.protocol) -> Returns(t, "Invalid URL")
      [] OTHER -> [t EXCEPT !.pc = "body"]

\* part_000:257-300 and part_005:211-214; everything is inside the try block
DispatchModular(t) ==
    CASE t.name \notin KnownTools -> CaughtFailure(t, "Unknown tool")
      [] t.name = "take_screenshot" -> [t EXCEPT !.pc = "body"]
      [] ~t.hasArguments -> CaughtFailure(t, "Missing or invalid parameter")
      [] t.name = "visit_page" /\ ~isValidUrl(t.protocol) ->
            CaughtFailure(t, "Invalid URL")
      [] OTHER -> [t EXCEPT !.pc = "body"]

\* the switch on the tool name and the checks made before the tool runs
ToolDispatch ==
    /\ tool.pc = "dispatch"
    /\ tool' = IF variant = "index" THEN DispatchIndex(tool) ELSE DispatchModular(tool)
    /\ UNCHANGED <<variant, surfaceVars, sessionVars, rt, navVars, shot>>

\* does the tool navigate? index.ts:705, 839; part_005 searchGoogle, visitPage
Navigates(name) == name \in {"search_google", "visit_page"}

\* is the tool's operation run under withRetry? index.ts:703, 837, 904; the
\* tools of part_005 are not
Retried == variant = "index"

(* What a run of a tool does to the session store.  A store is the record *)
(* of the session variables; a trace lists the insertions into the session *)
(* and the notifications the tool sends, in the order of the code.         *)

Store ==
    [session |-> currentSession, files |-> files, notifications |-> notifications,
     added |-> added, nextId |-> nextId, trace |-> <<>>]

\* addResult of a new result object with the given content and screenshot
Insert(st, content, screenshot) ==
    LET r == [id |-> st.nextId, content |-> content, screenshot |-> screenshot]
    IN  [session |-> AddResultTo(st.session, r),
         files |-> (st.files \cup OwnShot(r)) \ ReleasedByEviction(st.session.results),
         notifications |->
            IF variant = "index" /\ EvictsShot(st.session.results)
            THEN st.notifications + 1 ELSE st.notifications,
         added |-> IF st.session = NoSession THEN <<r.id>> ELSE Append(st.added, r.id),
         nextId |-> st.nextId + 1,
         trace |-> Append(st.trace, [e |-> "insert", id |-> r.id,
                                     shot |-> screenshot # NoShot])]

\* server.notification({method: "notifications/resources/list_changed"}) sent
\* for the screenshot of the result with identity id
Notify(st, id) ==
    [st EXCEPT !.notifications = st.notifications + 1,
               !.trace = Append(st.trace, [e |-> "notify", id |-> id, shot |-> TRUE])]

\* saveScreenshot (part_005:307, 364): a file is written for the identity id
SaveFile(st, id) == [st EXCEPT !.files = st.files \cup {id}]

RECURSIVE InsertAll(_, _)
\* index.ts:785-792 - searchResults.forEach(result => addResult({..., content: result.snippet}))
InsertAll(st, snippets) ==
    IF snippets = <<>> THEN st
    ELSE InsertAll(Insert(st, Head(snippets), NoShot), Tail(snippets))

\* lengths of the snippets of the entries a search extracts
Snippets == {20, 30}

\* the lists of entries a search may extract (by their snippets)
EntryLists == UNION {[1..n -> Snippets] : n \in 1..MaxEntries}

\* length of the content of a visited page
VisitedContent == 40

\* index.ts:926 - content: "Screenshot taken"
PlaceholderContent == 16

\* the awaited stages of one run of a tool's operation at which it may fail
Stages(t) ==
    CASE t.name = "search_google" -> {"navigate", "evaluate"}
      [] t.name = "visit_page" ->
            {"navigate", "evaluate"} \cup
            (IF t.takeScreenshot THEN {"screenshot"} ELSE {})
      [] OTHER -> {"screenshot"}

\* does a failure at the stage make the run fail?  part_005:299-311 swallows
\* the failure of the screenshot of visitPage
AttemptFails(t, failsAt) ==
    /\ failsAt # "none"
    /\ ~(variant = "modular" /\ t.name = "visit_page" /\ failsAt = "screenshot")

\* index.ts:703-795 - the entries are stored after the last awaited step
SearchIndex(st, entries, failsAt) ==
    IF failsAt # "none" THEN st ELSE InsertAll(st, entries)

\* part_005:94-191 - searchGoogle returns the entries and stores nothing
SearchModular(st, entries, failsAt) == st

\* mutant: the result is stored before the screenshot is taken
VisitIndex_RecordFirst(st, flag, failsAt) ==
    IF failsAt \in {"navigate", "evaluate"} THEN st
    ELSE IF flag /\ failsAt = "screenshot" THEN Insert(st, VisitedContent, NoShot)
    ELSE IF flag THEN Insert(Notify(st, st.nextId), VisitedContent, Png)
    ELSE Insert(st, VisitedContent, NoShot)

\* index.ts:837-875 - navigation, extraction, then with takeScreenshot the
\* capture followed by the notification, then addResult
VisitIndex(st, flag, failsAt) ==
    IF failsAt \in {"navigate", "evaluate"} THEN st
    ELSE IF flag /\ failsAt = "screenshot" THEN st
    ELSE IF flag THEN Insert(Notify(st, st.nextId), VisitedContent, Png)
    ELSE Insert(st, VisitedContent, NoShot)

\* part_005:216-324 - navigation, extraction, then with takeScreenshot the
\* capture and saveScreenshot, whose failure is only logged, then addResult
VisitModular(st, flag, failsAt) ==
    IF failsAt \in {"navigate", "evaluate"} THEN st
    ELSE IF flag /\ failsAt = "none"
    THEN Insert(SaveFile(st, st.nextId), VisitedContent, Png)
    ELSE Insert(st, VisitedContent, NoShot)

\* part_005:349-371 with part_000:281-298 - the screenshot is saved to a file
\* and returned; no result is stored
ScreenshotModular(st, failsAt) ==
    IF failsAt # "none" THEN st
    ELSE [SaveFile(st, st.nextId) EXCEPT !.nextId = st.nextId + 1]

\* the store after one run of the operation of the tool t
AttemptEffects(t, entries, failsAt) ==
    CASE t.name = "search_google" ->
            IF variant = "index" THEN SearchIndex(Store, entries, failsAt)
            ELSE SearchModular(Store, entries, failsAt)
      [] t.name = "visit_page" ->
            IF variant = "index" THEN VisitIndex(Store, t.takeScreenshot, failsAt)
            ELSE VisitModular(Store, t.takeScreenshot, failsAt)
      [] OTHER ->
            IF variant = "index" THEN Store      \* index.ts:904-907: capture only
            ELSE ScreenshotModular(Store, failsAt)

\* the session variables take the values of the store st
ApplyStore(st) ==
    /\ currentSession' = st.session
    /\ files' = st.files
    /\ notifications' = st.notifications
    /\ added' = st.added
    /\ nextId' = st.nextId

\* one run of the tool's operation: it navigates (search, visit) and works on
\* the page; any of its awaited stages may fail (stages lists, run by run,
\* the stage that failed, "none" when none did).  A failure is retried by the
\* outer withRetry of index.ts (MAX_RETRIES attempts) and is finally caught
\* by the tool's try block (index.ts:804, 888, 943; part_000:306).  After its
\* capture, take_screenshot of index.ts goes on to record the result.
ToolAttempt ==
    /\ tool.pc = "body"
    /\ \E failsAt \in Stages(tool) \cup {"none"},
          entries \in IF tool.name = "search_google" THEN EntryLists ELSE {<<>>} :
         LET st == AttemptEffects(tool, entries, failsAt)
             t == [tool EXCEPT !.attempts = tool.attempts + 1,
                               !.gotoCalls = IF Navigates(tool.name)
                                             THEN tool.gotoCalls + 1
                                             ELSE tool.gotoCalls,
                               !.trace = tool.trace \o st.trace,
                               !.stages = Append(tool.stages, failsAt)]
         IN  /\ ApplyStore(st)
             /\ tool' =
                  IF AttemptFails(tool, failsAt)
                  THEN IF Retried /\ t.attempts < MAX_RETRIES
                       THEN t
                       ELSE CaughtFailure(t, "Failed")
                  ELSE IF variant = "index" /\ tool.name = "take_screenshot"
                  THEN [t EXCEPT !.pc = "record"]
                  ELSE Returns([t EXCEPT !.entries = entries], "ok")
    /\ UNCHANGED <<variant, surfaceVars, rt, navVars, shot>>

\* index.ts:909-916 - the session take_screenshot sets up when there is none
WithScreenshotSession(st) ==
    IF st.session = NoSession
    THEN [st EXCEPT !.session = NewSession("Screenshot Session"), !.added = <<>>]
    ELSE st

\* index.ts:909-942 - take_screenshot after its capture: the session is set
\* up, the page's url and title are read (the read may fail), the result is
\* stored with the screenshot and the placeholder content, then the
\* notification is sent
ToolRecordScreenshot ==
    /\ tool.pc = "record"
    /\ \E titleRead \in BOOLEAN :
         LET st == IF titleRead
                   THEN LET a == Insert(WithScreenshotSession(Store),
                                        PlaceholderContent, Png)
                        IN  Notify(a, a.nextId - 1)
                   ELSE WithScreenshotSession(Store)
             t == [tool EXCEPT !.trace = tool.trace \o st.trace]
         IN  /\ ApplyStore(st)
             /\ tool' = IF titleRead THEN Returns(t, "ok")
                        ELSE CaughtFailure(t, "Failed")
    /\ UNCHANGED <<variant, surfaceVars, rt, navVars, shot>>

\* the response was sent; the server waits for the next request
ToolNext ==
    /\ tool.pc = "done"
    /\ tool' = ToolIdle
    /\ UNCHANGED <<variant, surfaceVars, sessionVars, rt, navVars, shot>>

-----------------------------------------------------------------------------
(* Screenshot resources: the ReadResourceRequestSchema handler,             *)
(* index.ts:521-557 and part_000:202-245                                    *)

\* the last segment of the uri, uri.split("/").pop(), as its characters
Segments ==
    {<<"0">>, <<"1">>, <<"2">>, <<"1", "0", "0">>, <<"-", "1">>,
     <<"a", "b", "c">>, <<>>, <<"1", "a", "b", "c">>}

DigitChars == {"0", "1", "2", "3", "4", "5", "6", "7", "8", "9"}

DigitValue(c) ==
    CASE c = "0" -> 0 [] c = "1" -> 1 [] c = "2" -> 2 [] c = "3" -> 3
      [] c = "4" -> 4 [] c = "5" -> 5 [] c = "6" -> 6 [] c = "7" -> 7
      [] c = "8" -> 8 [] OTHER -> 9

NaN == [nan |-> TRUE, value |-> 0]

RECURSIVE ParseDigits(_, _, _)
\* the value of the longest run of digits of s from position i on, given the
\* value acc of the digits read so far; what follows the run is ignored
ParseDigits(s, i, acc) ==
    IF i > Len(s) \/ s[i] \notin DigitChars THEN acc
    ELSE ParseDigits(s, i + 1, 10 * acc + DigitValue(s[i]))

\* parseInt(s, 10): an optional sign and the longest prefix of digits; NaN
\* when there is no digit at the start
ParseInt(s) ==
    LET neg == Len(s) >= 1 /\ s[1] = "-"
        from == IF neg THEN 2 ELSE 1
    IN  IF from > Len(s) \/ s[from] \notin DigitChars THEN NaN
        ELSE [nan |-> FALSE,
              value |-> IF neg THEN 0 - ParseDigits(s, from, 0)
                        ELSE ParseDigits(s, from, 0)]

NoReply == [status |-> "none", segment |-> <<>>, message |-> "", image |-> 0]

ReadError(seg, m) == [status |-> "error", segment |-> seg, message |-> m, image |-> 0]

\* the contents returned: the image of the result with identity id
ReadImage(seg, id) == [status |-> "image", segment |-> seg, message |-> "", image |-> id]

\* index.ts:534, part_000:212 - the negation of the out-of-bounds test
IndexInBounds(index, sess) ==
    ~index.nan /\ index.value >= 0 /\ index.value < Len(sess.results)

\* index.ts:523-556 and part_000:203-244 - the answer to a read of
\* research://screenshots/<seg>; results[index] is results[index + 1] here
ReadScreenshot(sess, seg) ==
    LET index == ParseInt(seg) IN
    IF sess = NoSession THEN ReadError(seg, "No active research session")
    ELSE IF ~IndexInBounds(index, sess)
    THEN ReadError(seg, "Screenshot index out of bounds")
    ELSE LET result == sess.results[index.value + 1] IN
         IF result.screenshot = NoShot
         THEN ReadError(seg, "No screenshot available at index")
         ELSE IF variant = "modular" /\ result.id \notin files
         THEN ReadError(seg, "Failed to read screenshot")   \* part_000:238-243
         ELSE ReadImage(seg, result.id)

DigitChar(d) ==
    CASE d = 0 -> "0" [] d = 1 -> "1" [] d = 2 -> "2" [] d = 3 -> "3"
      [] d = 4 -> "4" [] d = 5 -> "5" [] d = 6 -> "6" [] d = 7 -> "7"
      [] d = 8 -> "8" [] OTHER -> "9"

RECURSIVE ToDecimal(_)
\* `${i}` for an index i >= 0: its decimal digits
ToDecimal(i) ==
    IF i < 10 THEN <<DigitChar(i)>> ELSE Append(ToDecimal(i \div 10), DigitChar(i % 10))

\* the screenshot resource advertised under research://screenshots/<segment>
\* for the result with identity id
Advertised(i, r) == [segment |-> ToDecimal(i), id |-> r.id]

\* index.ts:477-484 - results.filter(r => r.screenshot).map((r, i) => ...):
\* i counts the results that have a screenshot
ListedIndex(results) ==
    LET shots == SelectSeq(results, LAMBDA r : r.screenshot # NoShot)
    IN  {Advertised(i - 1, shots[i]) : i \in 1..Len(shots)}

\* part_000:158-165 - results.map((r, i) => r.screenshotPath ? ... : undefined)
\* and then the filter: i is the position among all results
ListedModular(results) ==
    {Advertised(i - 1, results[i]) :
        i \in {j \in 1..Len(results) : results[j].screenshot # NoShot}}

\* the screenshot resources of the answer to resources/list
ListedScreenshots(sess) ==
    IF sess = NoSession THEN {}
    ELSE IF variant = "index" THEN ListedIndex(sess.results)
    ELSE ListedModular(sess.results)

\* a resources/read request for a screenshot uri is answered
ReadResource ==
    /\ \E seg \in Segments : reply' = ReadScreenshot(currentSession, seg)
    /\ UNCHANGED <<variant, sessionVars, rt, navVars, shot, tool, ext, calls, rm, acq, rel, proc, dom>>

\* the answer of a tool that names the screenshot resource it stored
Reported(seg) == [status |-> "reported", segment |-> seg, message |-> "", image |-> 0]

\* take_screenshot (part_004:1077-1102) and visit_page with a screenshot
\* (part_004:1006-1025) of the playwright server: resultIndex is the length
\* of the results before addResult, and the uri returned is
\* research://screenshots/${resultIndex}
ReportScreenshot ==
    /\ variant = "playwright"
    /\ reply.status # "reported"
    /\ nextId <= MaxAdds
    /\ LET resultIndex == IF currentSession = NoSession THEN 0
                          ELSE Len(currentSession.results)
       IN  reply' = Reported(ToDecimal(resultIndex))
    /\ addResult([id |-> nextId, content |-> 20, screenshot |-> Png])
    /\ nextId' = nextId + 1
    /\ UNCHANGED <<variant, rt, navVars, shot, tool, ext, calls, rm, acq, rel, proc, dom>>

\* the client reads the uri the tool has just returned (part_004:648-675)
ReadReported ==
    /\ reply.status = "reported"
    /\ reply' = ReadScreenshot(currentSession, reply.segment)
    /\ UNCHANGED <<variant, sessionVars, rt, navVars, shot, tool, ext, calls, rm, acq,
                   rel, proc, dom>>

-----------------------------------------------------------------------------
(* Content extraction: extractContentAsMarkdown, index.ts:575-668, and      *)
(* htmlToMarkdown, part_006:503-521, called by visitPage at part_005:294    *)

(* The extracted markup is a sequence of elements.  An element is          *)
(* [tag, kids]: a p, script or style element holds one text node and no    *)
(* child element; a div or noscript element holds child elements only.     *)

\* index.ts:42 - filter: ['script', 'style', 'noscript'] of the rule removeScripts
RemoveScriptsFilter == {"script", "style", "noscript"}

\* the rules added to the Turndown service that replace an element by '':
\* removeScripts at index.ts:41-44; part_006:444-491 adds figureWithCaption
\* and preCode only
EmptyReplacementTags == IF variant = "index" THEN RemoveScriptsFilter ELSE {}

LeafTags == {"p", "script", "style"}
ContainerTags == {"div", "noscript"}

Leaves == [tag : LeafTags, kids : {<<>>}]
Containers == [tag : ContainerTags, kids : {<<l>> : l \in Leaves}]
Elements == Leaves \cup Containers

\* markups page.evaluate may hand back (index.ts:580-645, part_005:221-291)
Markups == UNION {[1..n -> Elements] : n \in 1..MaxNodes}

\* a piece of text: the tag of the element that holds it, and whether it lies
\* in a script, style or noscript subtree
Piece(tag, inScript) == [tag |-> tag, inScript |-> inScript]

RECURSIVE Turndown(_, _)
\* turndownService.turndown: the text pieces of the markdown for the elements
\* nodes, in order; an element a rule replaces by '' contributes nothing,
\* the others contribute their text and the conversion of their children
Turndown(nodes, inScript) ==
    IF nodes = <<>> THEN <<>>
    ELSE LET n == Head(nodes)
             in == inScript \/ n.tag \in RemoveScriptsFilter
             own == IF n.tag \in LeafTags THEN <<Piece(n.tag, in)>> ELSE <<>>
             here == IF n.tag \in EmptyReplacementTags
                     THEN <<>>
                     ELSE own \o Turndown(n.kids, in)
         IN  here \o Turndown(Tail(nodes), inScript)

RECURSIVE OuterHtml(_, _)
\* the text pieces of the serialized markup itself: every text node
OuterHtml(nodes, inScript) ==
    IF nodes = <<>> THEN <<>>
    ELSE LET n == Head(nodes)
             in == inScript \/ n.tag \in RemoveScriptsFilter
             own == IF n.tag \in LeafTags THEN <<Piece(n.tag, in)>> ELSE <<>>
         IN  own \o OuterHtml(n.kids, in) \o OuterHtml(Tail(nodes), inScript)

ExtractIdle == [pc |-> "idle", html |-> <<>>, kind |-> "none", out |-> <<>>]

\* index.ts:580-650 - page.evaluate hands back the markup; an empty string is
\* returned as '' at once.  part_005:221-294 passes whatever it got on
ExtractEvaluate ==
    /\ ext.pc = "idle"
    /\ \E h \in Markups \cup {<<>>} :
         ext' = IF h = <<>> /\ variant = "index"
                THEN [ext EXCEPT !.pc = "returned", !.kind = "empty"]
                ELSE [ext EXCEPT !.pc = "convert", !.html = h]
    /\ UNCHANGED <<variant, sessionVars, rt, navVars, shot, tool, reply, calls, rm, acq, rel, proc, dom>>

\* index.ts:652-667, part_006:504-520 - the conversion returns the cleaned
\* markdown, or raises and the catch block returns the markup as it is
ExtractConvert ==
    /\ ext.pc = "convert"
    /\ \/ ext' = [ext EXCEPT !.pc = "returned", !.kind = "markdown",
                             !.out = Turndown(ext.html, FALSE)]
       \/ ext' = [ext EXCEPT !.pc = "returned", !.kind = "html",
                             !.out = OuterHtml(ext.html, FALSE)]
    /\ UNCHANGED <<variant, sessionVars, rt, navVars, shot, tool, reply, calls, rm, acq, rel, proc, dom>>

-----------------------------------------------------------------------------
(* The document the extraction works on: the function handed to            *)
(* page.evaluate by extractContentAsMarkdown (index.ts:580-645) and by     *)
(* visitPage (part_005:221-291) runs in the page, on the live document.    *)
(* A document is the sequence of the child elements of its body, each      *)
(* given by its tag.                                                       *)

\* tags of the elements of a body: a content container, two elements of
\* page chrome, a paragraph
BodyTags == {"main", "nav", "footer", "p"}

\* the first entries of contentSelectors (index.ts:589-590, part_005:226-227)
ContentContainers == {"main"}

\* the tags among elementsToRemove (index.ts:611-636) and among
\* unwantedSelectors (part_005:257-273)
ChromeTags == {"nav", "footer"}

\* loaded: the body as the page was loaded; live: the body now; html: what
\* the last extraction handed back; runs: extractions run
NoDocument == [loaded |-> <<>>, live |-> <<>>, html |-> <<>>, runs |-> 0]

Documents == UNION {[1..n -> BodyTags] : n \in 1..MaxBodyChildren}

IsChrome(tag) == tag \in ChromeTags

IsContainer(tag) == tag \in ContentContainers

\* querySelectorAll(sel).forEach(el => el.remove()) for each denylisted
\* selector, on the children given
WithoutChrome(children) == SelectSeq(children, LAMBDA t : ~IsChrome(t))

\* index.ts:580-645 without a selector argument: the first content container
\* is handed back as it is; without one the denylisted elements are removed
\* from document.body itself, whose outerHTML is handed back
EvaluateIndex(live) ==
    IF \E i \in 1..Len(live) : IsContainer(live[i])
    THEN [html |-> SelectSeq(live, IsContainer), live |-> live]
    ELSE [html |-> WithoutChrome(live), live |-> WithoutChrome(live)]

\* part_005:221-283: the content container, or the body, is cloned
\* (cloneNode(true)) and the denylisted elements are removed from the clone
EvaluateModular(live) ==
    IF \E i \in 1..Len(live) : IsContainer(live[i])
    THEN [html |-> SelectSeq(live, IsContainer), live |-> live]
    ELSE [html |-> WithoutChrome(live), live |-> live]

\* the navigation loaded a document
DomLoad ==
    /\ dom = NoDocument
    /\ \E d \in Documents : dom' = [NoDocument EXCEPT !.loaded = d, !.live = d]
    /\ UNCHANGED <<variant, sessionVars, rt, navVars, shot, tool, ext, reply, calls,
                   rm, acq, rel, proc>>

\* an extraction runs its function in the page
DomExtract ==
    /\ dom.loaded # <<>>
    /\ dom.runs < MaxExtractions
    /\ LET r == IF variant = "index" THEN EvaluateIndex(dom.live)
                ELSE EvaluateModular(dom.live)
       IN  dom' = [dom EXCEPT !.html = r.html, !.live = r.live, !.runs = dom.runs + 1]
    /\ UNCHANGED <<variant, sessionVars, rt, navVars, shot, tool, ext, reply, calls,
                   rm, acq, rel, proc>>

-----------------------------------------------------------------------------
(* Overlapping requests: the handler registered at index.ts:691 and          *)
(* part_000:254 is an async function; each tools/call message the transport *)
(* delivers starts a run of it, and a run gives up control at every await   *)

Slots == 1..MaxInFlight

CallIdle == [pc |-> "idle", name |-> ""]

CallsIdle == [k \in Slots |-> CallIdle]

\* the awaited operations of a run, in order, by tool:
\* index.ts:693, 705, 748, 839, 845, 863, 906;
\* part_000:255 with part_005:100, 106, 218, 221, 301, 352, 358
PageSteps(name) ==
    CASE name = "search_google" -> <<"ensureBrowser", "navigate", "evaluate">>
      [] name = "visit_page" -> <<"ensureBrowser", "navigate", "evaluate", "capture">>
      [] OTHER -> <<"ensureBrowser", "capture">>

\* the operations that work on the shared page
PageOps == {"navigate", "evaluate", "capture"}

\* the step after pc in the run of the tool name; "done" after the last
NextStep(name, pc) ==
    LET steps == PageSteps(name)
        at == CHOOSE i \in 1..Len(steps) : steps[i] = pc
    IN  IF at = Len(steps) THEN "done" ELSE steps[at + 1]

\* a tools/call request is delivered: a run of the handler starts and reaches
\* its first await, `await ensureBrowser()`; no other run is waited for
CallArrive(k) ==
    /\ calls[k].pc = "idle"
    /\ \E n \in KnownTools :
         calls' = [calls EXCEPT ![k] = [pc |-> "ensureBrowser", name |-> n]]
    /\ UNCHANGED <<variant, sessionVars, rt, navVars, shot, tool, ext, reply, rm, acq, rel, proc, dom>>

\* the awaited operation of run k settles and the run goes on to its next await
CallStep(k) ==
    /\ calls[k].pc \notin {"idle", "done"}
    /\ calls' = [calls EXCEPT ![k].pc = NextStep(calls[k].name, calls[k].pc)]
    /\ UNCHANGED <<variant, sessionVars, rt, navVars, shot, tool, ext, reply, rm, acq, rel, proc, dom>>

\* the result of run k is sent
CallRespond(k) ==
    /\ calls[k].pc = "done"
    /\ calls' = [calls EXCEPT ![k] = CallIdle]
    /\ UNCHANGED <<variant, sessionVars, rt, navVars, shot, tool, ext, reply, rm, acq, rel, proc, dom>>

-----------------------------------------------------------------------------
(* Resource manager: the module-level references browser and page            *)
(* (index.ts:143-144, part_000:450-451, part_004:191-192), ensureBrowser     *)
(* (index.ts:1109-1213, part_000:463-491, part_004:1196-1216) and the        *)
(* release of both (cleanupBrowser index.ts:1055-1073, closeBrowser          *)
(* part_000:751-762, cleanup part_004:1219-1234).  Browsers and pages are   *)
(* numbered in the order of their creation.  A run of an async function     *)
(* gives up control at each awaited remote operation (launch, close,        *)
(* newPage, ...); awaits of synchronous calls (page.removeAllListeners) are *)
(* taken with the statements that follow them.  While a run waits the       *)
(* browser may disconnect, the page may crash or be closed, and other runs  *)
(* may proceed.                                                             *)

\* the variants of the resource manager: part_004 is the single-file
\* playwright server ("playwright"); its navigation and tools are those of
\* the modular server
BrowserVariants == Variants \cup {"playwright"}

\* the value of a reference that holds no object
NoRef == 0

Browsers == 1..MaxBrowsers

PageIds == 1..MaxPages

\* state: of each browser, "none" (not launched), "connected",
\* "disconnected" (connection lost, crash) or "closed"; owner: the browser
\* each page was opened in; closed: the pages that were closed; crashed: the
\* pages whose renderer crashed
RmAtStart ==
    [browser |-> NoRef, page |-> NoRef,
     state |-> [b \in Browsers |-> "none"],
     owner |-> [p \in PageIds |-> NoRef],
     closed |-> {}, crashed |-> {}]

\* a run of the tools/call handler from its call of ensureBrowser on:
\* target is the object of the awaited operation, handle the page
\* ensureBrowser returned, attempts the operations issued on the handle,
\* stale whether one was issued after the handle's browser disconnected;
\* when ensureBrowser was called, dead were the browsers that had
\* disconnected and shut was the current page if it had been closed while
\* its browser was connected
AcqIdle ==
    [pc |-> "idle", target |-> NoRef, handle |-> NoRef, attempts |-> 0,
     stale |-> FALSE, dead |-> {}, shut |-> NoRef]

AcqsIdle == [k \in Slots |-> AcqIdle]

RelIdle == [pc |-> "idle", target |-> NoRef]

\* the process: pc is "running", the part of a signal handler it is in,
\* "handled" or "exited"; race is the state of cleanupWithTimeout's
\* Promise.race ("pending", "closed", "rejected" or "timeout") and target the browser
\* whose close() is racing; held is the browser the process referred to when
\* the signal arrived
ProcRunning ==
    [pc |-> "running", signal |-> "none", code |-> "none", race |-> "none",
     target |-> NoRef, held |-> NoRef]

Signals == {"SIGINT", "SIGTERM"}

Connected(m, b) == b # NoRef /\ m.state[b] = "connected"

Gone(m, b) == b # NoRef /\ m.state[b] \in {"disconnected", "closed"}

OpenPages(m, b) == {p \in PageIds : m.owner[p] = b /\ p \notin m.closed}

\* a remote operation on page p can succeed
Usable(m, p) ==
    p # NoRef /\ Connected(m, m.owner[p]) /\ p \notin m.closed \cup m.crashed

FreshBrowsers(m) == {b \in Browsers : m.state[b] = "none"}

FreshPages(m) == {p \in PageIds : m.owner[p] = NoRef}

Lowest(S) == CHOOSE x \in S : \A y \in S : x <= y

\* browser.on('disconnected') of index.ts:1143-1150 clears both references;
\* part_000 and part_004 register no observer
Disconnected(m) ==
    IF variant = "index"
    THEN [m EXCEPT !.browser = NoRef, !.page = NoRef]
    ELSE m

\* browser b is closed by browser.close(); closing a connected browser
\* raises its 'disconnected' event
CloseIn(m, b) ==
    IF Connected(m, b) THEN Disconnected([m EXCEPT !.state[b] = "closed"])
    ELSE IF m.state[b] = "disconnected" THEN [m EXCEPT !.state[b] = "closed"]
    ELSE m

At(run, pc, target) == [run EXCEPT !.pc = pc, !.target = target]

\* return page of ensureBrowser: the value of the module-level reference
Return(m, run) ==
    [m |-> m, run |-> [run EXCEPT !.pc = "holding", !.target = NoRef,
                                  !.handle = m.page]]

\* index.ts:1200-1212: the catch of ensureBrowser
IndexCatch(m, run) ==
    IF m.browser # NoRef
    THEN [m |-> m, run |-> At(run, "catchClose", m.browser)]
    ELSE [m |-> [m EXCEPT !.page = NoRef], run |-> At(run, "failed", NoRef)]

\* index.ts:1153-1199 up to the first await
IndexPageCheck(m, run) ==
    IF m.page = NoRef \/ m.page \in m.closed
    THEN [m |-> m, run |-> At(run, "pages", m.browser)]
    ELSE Return(m, run)

\* index.ts:1111-1132 up to the first awaited remote operation
IndexCall(m, run) ==
    LET dead == ~Connected(m, m.browser)
        m1 == IF dead /\ m.page # NoRef THEN [m EXCEPT !.page = NoRef] ELSE m
    IN  IF dead
        THEN IF m.browser # NoRef
             THEN [m |-> m1, run |-> At(run, "closeOld", m.browser)]
             ELSE [m |-> m1, run |-> At(run, "launch", NoRef)]
        ELSE IndexPageCheck(m1, run)

\* puppeteer.launch resolved: a new browser with its first page
IndexLaunched(m) ==
    LET b == Lowest(FreshBrowsers(m))
        p == Lowest(FreshPages(m))
    IN  [m EXCEPT !.state[b] = "connected", !.owner[p] = b, !.browser = b]

\* the run of index.ts's ensureBrowser resumes after its awaited operation,
\* which succeeded (ok) or failed
IndexResume(m, run, ok) ==
    CASE run.pc = "closeOld" ->
           [m |-> [(IF ok THEN CloseIn(m, run.target) ELSE m) EXCEPT !.browser = NoRef],
            run |-> At(run, "launch", NoRef)]
      [] run.pc = "launch" ->
           IF ok THEN IndexPageCheck(IndexLaunched(m), run) ELSE IndexCatch(m, run)
      [] run.pc = "pages" ->
           IF ~ok THEN IndexCatch(m, run)
           ELSE IF OpenPages(m, run.target) # {}
           THEN LET p == Lowest(OpenPages(m, run.target))
                IN  [m |-> [m EXCEPT !.page = p], run |-> At(run, "setViewport", p)]
           ELSE IF m.browser = NoRef THEN IndexCatch(m, run)
           ELSE [m |-> m, run |-> At(run, "newPage", m.browser)]
      [] run.pc = "newPage" ->
           IF ok
           THEN LET p == Lowest(FreshPages(m))
                IN  [m |-> [m EXCEPT !.owner[p] = run.target, !.page = p],
                     run |-> At(run, "setViewport", p)]
           ELSE IndexCatch(m, run)
      [] run.pc = "setViewport" ->
           IF ok /\ m.page # NoRef
           THEN [m |-> m, run |-> At(run, "setRequestInterception", m.page)]
           ELSE IndexCatch(m, run)
      [] run.pc = "setRequestInterception" ->
           IF ok THEN Return(m, run) ELSE IndexCatch(m, run)
      [] run.pc = "catchClose" ->
           [m |-> [(IF ok THEN CloseIn(m, run.target) ELSE m)
                      EXCEPT !.browser = NoRef, !.page = NoRef],
            run |-> At(run, "failed", NoRef)]

\* part_000:465-484 and part_004:1197-1215 up to the first await
PlaywrightCall(m, run) ==
    IF m.browser = NoRef THEN [m |-> m, run |-> At(run, "launch", NoRef)]
    ELSE IF m.page = NoRef THEN [m |-> m, run |-> At(run, "newPage", m.browser)]
    ELSE Return(m, run)

\* the run of the playwright ensureBrowser resumes; a failure leaves the
\* function (part_000:487-490 rethrows it) with the references as they are
PlaywrightResume(m, run, ok) ==
    CASE run.pc = "launch" ->
           IF ok
           THEN LET b == Lowest(FreshBrowsers(m))
                IN  [m |-> [m EXCEPT !.state[b] = "connected", !.browser = b],
                     run |-> At(run, "newPage", b)]
           ELSE [m |-> m, run |-> At(run, "failed", NoRef)]
      [] run.pc = "newPage" ->
           IF ok
           THEN LET p == Lowest(FreshPages(m))
                IN  Return([m EXCEPT !.owner[p] = run.target, !.page = p], run)
           ELSE [m |-> m, run |-> At(run, "failed", NoRef)]

\* the awaited operation of the run can succeed in state m
CanSucceed(m, run) ==
    CASE run.pc = "launch" ->
           /\ FreshBrowsers(m) # {}
           /\ (variant = "index" => FreshPages(m) # {})
      [] run.pc = "newPage" -> Connected(m, run.target) /\ FreshPages(m) # {}
      [] run.pc \in {"setViewport", "setRequestInterception"} -> Usable(m, run.target)
      [] OTHER -> TRUE

Awaiting == {"closeOld", "launch", "pages", "newPage", "setViewport",
             "setRequestInterception", "catchClose"}

Alive == proc.pc # "exited"

\* the handler calls ensureBrowser (index.ts:693, part_000:255, part_004:835)
EnsureCall(k) ==
    /\ Alive
    /\ acq[k].pc = "idle"
    /\ LET run == [acq[k] EXCEPT
                     !.dead = {b \in Browsers : rm.state[b] = "disconnected"},
                     !.shut = IF rm.page \in rm.closed /\ Connected(rm, rm.owner[rm.page])
                              THEN rm.page ELSE NoRef]
           r == IF variant = "index" THEN IndexCall(rm, run) ELSE PlaywrightCall(rm, run)
       IN  /\ rm' = r.m
           /\ acq' = [acq EXCEPT ![k] = r.run]
    /\ UNCHANGED <<variant, sessionVars, rt, navVars, shot, tool, ext, reply, calls,
                   rel, proc, dom>>

\* the operation a run of ensureBrowser waits for completes or fails
EnsureStep(k) ==
    /\ Alive
    /\ acq[k].pc \in Awaiting
    /\ \E ok \in BOOLEAN :
         /\ ok => CanSucceed(rm, acq[k])
         /\ LET r == IF variant = "index" THEN IndexResume(rm, acq[k], ok)
                     ELSE PlaywrightResume(rm, acq[k], ok)
            IN  /\ rm' = r.m
                /\ acq' = [acq EXCEPT ![k] = r.run]
    /\ UNCHANGED <<variant, sessionVars, rt, navVars, shot, tool, ext, reply, calls,
                   rel, proc, dom>>

\* operations a handler issues on the handle it holds: the operation of a
\* tool is run up to MAX_RETRIES times by withRetry in index.ts:158-179 and
\* once by the other servers
AttemptBudget == IF variant = "index" THEN MAX_RETRIES ELSE 1

\* the handler issues a remote operation of the tool on the page it got from
\* ensureBrowser (const page, index.ts:693); every run of the operation uses
\* that handle
Operate(k) ==
    /\ Alive
    /\ acq[k].pc = "holding"
    /\ acq[k].handle # NoRef
    /\ acq[k].attempts < AttemptBudget
    /\ acq' = [acq EXCEPT ![k].attempts = @ + 1,
                          ![k].stale = @ \/ Gone(rm, rm.owner[acq[k].handle])]
    /\ UNCHANGED <<variant, sessionVars, rt, navVars, shot, tool, ext, reply, calls,
                   rm, rel, proc, dom>>

\* the handler answers the request
Respond(k) ==
    /\ Alive
    /\ acq[k].pc \in {"holding", "failed"}
    /\ acq' = [acq EXCEPT ![k] = AcqIdle]
    /\ UNCHANGED <<variant, sessionVars, rt, navVars, shot, tool, ext, reply, calls,
                   rm, rel, proc, dom>>

\* the connection to browser b is lost
Disconnect(b) ==
    /\ Alive
    /\ Connected(rm, b)
    /\ rm' = Disconnected([rm EXCEPT !.state[b] = "disconnected"])
    /\ UNCHANGED <<variant, sessionVars, rt, navVars, shot, tool, ext, reply, calls,
                   acq, rel, proc, dom>>

\* the current page crashes: page.on('error') of index.ts:1162-1165 clears
\* the page reference; the other servers do not listen
PageError ==
    /\ Alive
    /\ variant = "index"
    /\ Usable(rm, rm.page)
    /\ rm' = [rm EXCEPT !.page = NoRef, !.crashed = @ \cup {rm.page}]
    /\ UNCHANGED <<variant, sessionVars, rt, navVars, shot, tool, ext, reply, calls,
                   acq, rel, proc, dom>>

\* page p is closed from outside the resource manager
PageClose(p) ==
    /\ Alive
    /\ Usable(rm, p)
    /\ rm' = [rm EXCEPT !.closed = @ \cup {p}]
    /\ UNCHANGED <<variant, sessionVars, rt, navVars, shot, tool, ext, reply, calls,
                   acq, rel, proc, dom>>

\* both references are cleared (the finally blocks)
Released(m) == [m EXCEPT !.browser = NoRef, !.page = NoRef]

\* the release function up to its first awaited remote operation:
\* cleanupBrowser (index.ts:1055-1073) does nothing without a browser;
\* closeBrowser (part_000:751-762); cleanup (part_004:1219-1234) first
\* removes the screenshot files
ReleaseStart(m) ==
    CASE variant = "index" ->
           IF m.browser = NoRef THEN [m |-> m, rel |-> [pc |-> "done", target |-> NoRef]]
           ELSE IF m.page # NoRef
           THEN [m |-> m, rel |-> [pc |-> "closePage", target |-> m.page]]
           ELSE [m |-> m, rel |-> [pc |-> "closeBrowser", target |-> m.browser]]
      [] variant = "modular" ->
           IF m.browser = NoRef
           THEN [m |-> Released(m), rel |-> [pc |-> "done", target |-> NoRef]]
           ELSE [m |-> m, rel |-> [pc |-> "closeBrowser", target |-> m.browser]]
      [] variant = "playwright" ->
           [m |-> m, rel |-> [pc |-> "cleanupScreenshots", target |-> NoRef]]

\* the release function resumes after its awaited operation
ReleaseResume(m, r, ok) ==
    CASE r.pc = "cleanupScreenshots" ->
           IF m.browser = NoRef
           THEN [m |-> Released(m), rel |-> [pc |-> "done", target |-> NoRef]]
           ELSE [m |-> m, rel |-> [pc |-> "closeBrowser", target |-> m.browser]]
      [] r.pc = "closePage" ->
           LET m1 == IF ok /\ Usable(m, r.target)
                     THEN [m EXCEPT !.closed = @ \cup {r.target}] ELSE m
           IN  IF m1.browser = NoRef
               THEN [m |-> Released(m1), rel |-> [pc |-> "done", target |-> NoRef]]
               ELSE [m |-> m1, rel |-> [pc |-> "closeBrowser", target |-> m1.browser]]
      [] r.pc = "closeBrowser" ->
           [m |-> Released(IF ok THEN CloseIn(m, r.target) ELSE m),
            rel |-> [pc |-> "done", target |-> NoRef]]

\* the release function is called: cleanupBrowser by the SIGINT handler
\* (index.ts:1079), cleanup by the signal and exit handlers
\* (part_004:1237-1240), closeBrowser by the importers of the browser module
ReleaseCall ==
    /\ Alive
    /\ rel.pc \in {"idle", "done"}
    /\ LET r == ReleaseStart(rm)
       IN  rm' = r.m /\ rel' = r.rel
    /\ UNCHANGED <<variant, sessionVars, rt, navVars, shot, tool, ext, reply, calls,
                   acq, proc, dom>>

\* the operation the release function waits for completes or fails
ReleaseStep ==
    /\ Alive
    /\ rel.pc \in {"cleanupScreenshots", "closePage", "closeBrowser"}
    /\ \E ok \in BOOLEAN :
         LET r == ReleaseResume(rm, rel, ok)
         IN  /\ rm' = r.m
             /\ rel' = r.rel
             /\ files' = IF rel.pc = "cleanupScreenshots" /\ ok THEN {} ELSE files
    /\ UNCHANGED <<variant, currentSession, notifications, nextId, added, rt, navVars,
                   shot, tool, ext, reply, calls, acq, proc, dom>>

\* cleanupWithTimeout (index.ts:1039-1052) starts: browser.close(), if there
\* is a browser, races a timer of CLEANUP_TIMEOUT_MS
RaceStart(m) == IF m.browser # NoRef THEN "pending" ELSE "closed"

\* the process receives a signal.  index.ts:1076-1094 handles SIGINT and
\* SIGTERM; part_004:1238-1239 registers cleanup for both; the modular
\* server registers no handler, so the signal ends the process
Signal(s) ==
    /\ proc.pc = "running"
    /\ rel.pc \in {"idle", "done"}
    /\ CASE variant = "modular" ->
              /\ proc' = [proc EXCEPT !.pc = "exited", !.signal = s, !.code = "signal",
                                      !.held = rm.browser]
              /\ UNCHANGED <<rm, rel, dom>>
         [] variant = "playwright" ->
              /\ proc' = [proc EXCEPT !.pc = "cleanup", !.signal = s, !.held = rm.browser]
              /\ rm' = ReleaseStart(rm).m
              /\ rel' = ReleaseStart(rm).rel
         [] variant = "index" /\ s = "SIGINT" ->
              /\ proc' = [proc EXCEPT !.pc = "cleanupBrowser", !.signal = s,
                                      !.held = rm.browser]
              /\ rm' = ReleaseStart(rm).m
              /\ rel' = ReleaseStart(rm).rel
         [] variant = "index" /\ s = "SIGTERM" ->
              /\ proc' = [proc EXCEPT !.pc = "cleanupWithTimeout", !.signal = s,
                                      !.race = RaceStart(rm), !.target = rm.browser,
                                      !.held = rm.browser]
              /\ UNCHANGED <<rm, rel, dom>>
    /\ UNCHANGED <<variant, sessionVars, rt, navVars, shot, tool, ext, reply, calls, acq, dom>>

\* the signal handler goes on once what it awaits is settled.  In the SIGINT
\* handler of index.ts the rejection of cleanupWithTimeout is not caught: it
\* reaches the uncaughtException handler of index.ts:1096-1106, which exits
\* with 1.  The handler of part_004 returns without ending the process
ShutdownStep ==
    /\ Alive
    /\ CASE proc.pc = "cleanupBrowser" /\ rel.pc = "done" ->
              proc' = [proc EXCEPT !.pc = "cleanupWithTimeout", !.race = RaceStart(rm),
                                   !.target = rm.browser]
         [] proc.pc = "cleanupWithTimeout" /\ proc.race = "closed" ->
              proc' = [proc EXCEPT !.pc = "exited", !.code = "0"]
         [] proc.pc = "cleanupWithTimeout" /\ proc.race \in {"rejected", "timeout"} ->
              proc' = [proc EXCEPT !.pc = "exited", !.code = "1"]
         [] proc.pc = "cleanup" /\ rel.pc = "done" ->
              proc' = [proc EXCEPT !.pc = "handled"]
         [] OTHER -> FALSE
    /\ UNCHANGED <<variant, sessionVars, rt, navVars, shot, tool, ext, reply, calls,
                   rm, acq, rel, dom>>

\* browser.close() of cleanupWithTimeout settles before the timer
RaceClose ==
    /\ Alive
    /\ proc.race = "pending"
    /\ \E ok \in BOOLEAN :
         /\ rm' = IF ok THEN CloseIn(rm, proc.target) ELSE rm
         /\ proc' = [proc EXCEPT !.race = IF ok THEN "closed" ELSE "rejected"]
    /\ UNCHANGED <<variant, sessionVars, rt, navVars, shot, tool, ext, reply, calls,
                   acq, rel, dom>>

\* the timer of cleanupWithTimeout fires first
TimerFires ==
    /\ Alive
    /\ proc.race = "pending"
    /\ proc' = [proc EXCEPT !.race = "timeout"]
    /\ UNCHANGED <<variant, sessionVars, rt, navVars, shot, tool, ext, reply, calls,
                   rm, acq, rel, dom>>


-----------------------------------------------------------------------------
(* Specifications *)

SessionAtStart ==
    /\ currentSession = NoSession
    /\ notifications = 0
    /\ nextId = 1
    /\ added = <<>>
    /\ files = {}

\* no extraction, resource read or tool call is under way
SurfaceAtStart ==
    /\ ext = ExtractIdle
    /\ reply = NoReply
    /\ calls = CallsIdle
    /\ rm = RmAtStart
    /\ acq = AcqsIdle
    /\ rel = RelIdle
    /\ proc = ProcRunning
    /\ dom = NoDocument

InitSession ==
    /\ variant \in Variants
    /\ SessionAtStart
    /\ SurfaceAtStart
    /\ rt = RetryIdle
    /\ site = NoSite
    /\ nav = NavIdle
    /\ shot = ShotIdle
    /\ tool = ToolIdle

NextSession ==
    \/ AddResult
    \/ CreateSession
    \/ ClearSession
    \/ InitScreenshotSession

SpecSession == InitSession /\ [][NextSession]_vars

InitRetry ==
    /\ variant \in Variants
    /\ SessionAtStart
    /\ SurfaceAtStart
    /\ rt = RetryIdle
    /\ site = NoSite
    /\ nav = NavIdle
    /\ shot = ShotIdle
    /\ tool = ToolIdle

NextRetry ==
    \/ RetryStart
    \/ RetryInvoke
    \/ RetryWait

SpecRetry == InitRetry /\ [][NextRetry]_vars

InitNav ==
    /\ variant \in Variants
    /\ SessionAtStart
    /\ SurfaceAtStart
    /\ rt = RetryIdle
    /\ site \in Sites
    /\ nav = NavIdle
    /\ shot = ShotIdle
    /\ tool = ToolIdle

NextNav ==
    \/ NavStart
    \/ NavGoto
    \/ NavSettle
    \/ NavValidate

SpecNav == InitNav /\ [][NextNav]_vars

InitShot ==
    /\ variant = "index"
    /\ SessionAtStart
    /\ SurfaceAtStart
    /\ rt = RetryIdle
    /\ site = NoSite
    /\ nav = NavIdle
    /\ \E w \in Extents, h \in Extents, m \in MaxSizeArgs :
         shot = [ShotIdle EXCEPT !.pc = "measure", !.page = [w |-> w, h |-> h],
                                 !.maxSizeBytes = m]
    /\ tool = ToolIdle

NextShot ==
    \/ ShotMeasure
    \/ ShotSetViewport
    \/ ShotCapture
    \/ ShotResize
    \/ ShotFinal

SpecShot == InitShot /\ [][NextShot]_vars

\* a call of takeScreenshotWithSizeLimit of index.ts or of part_004; each
\* step of the function is its own or the settling of an operation it
\* awaits, so a step that stays possible is taken
InitCapture ==
    \/ InitShot
    \/ /\ variant = "playwright"
       /\ SessionAtStart
       /\ SurfaceAtStart
       /\ rt = RetryIdle
       /\ site = NoSite
       /\ nav = NavIdle
       /\ shot = [ShotIdle EXCEPT !.pc = "pwCapture", !.maxSizeBytes = MAX_SIZE]
       /\ tool = ToolIdle

NextCapture ==
    \/ ShotMeasure
    \/ ShotSetViewport
    \/ ShotCapture
    \/ ShotResize
    \/ ShotFinal
    \/ PwCapture
    \/ PwLoop
    \/ PwFinal

SpecCapture == InitCapture /\ [][NextCapture]_vars /\ WF_vars(NextCapture)

InitTool ==
    /\ variant \in Variants
    /\ SessionAtStart
    /\ SurfaceAtStart
    /\ rt = RetryIdle
    /\ site = NoSite
    /\ nav = NavIdle
    /\ shot = ShotIdle
    /\ tool = ToolIdle

NextTool ==
    \/ ToolCall
    \/ ToolEnsureBrowser
    \/ ToolDispatch
    \/ ToolAttempt
    \/ ToolRecordScreenshot
    \/ ToolNext

SpecTool == InitTool /\ [][NextTool]_vars

InitExtract ==
    /\ variant \in Variants
    /\ SessionAtStart
    /\ SurfaceAtStart
    /\ rt = RetryIdle
    /\ site = NoSite
    /\ nav = NavIdle
    /\ shot = ShotIdle
    /\ tool = ToolIdle

NextExtract ==
    \/ ExtractEvaluate
    \/ ExtractConvert

SpecExtract == InitExtract /\ [][NextExtract]_vars

NextDom ==
    \/ DomLoad
    \/ DomExtract

SpecDom == InitExtract /\ [][NextDom]_vars

InitStore ==
    /\ variant \in Variants
    /\ SessionAtStart
    /\ SurfaceAtStart
    /\ rt = RetryIdle
    /\ site = NoSite
    /\ nav = NavIdle
    /\ shot = ShotIdle
    /\ tool = ToolIdle

NextStore ==
    \/ AddResult
    \/ AddPageResult
    \/ ClearSession

SpecStore == InitStore /\ [][NextStore]_vars

InitRead ==
    /\ variant \in Variants
    /\ SessionAtStart
    /\ SurfaceAtStart
    /\ rt = RetryIdle
    /\ site = NoSite
    /\ nav = NavIdle
    /\ shot = ShotIdle
    /\ tool = ToolIdle

NextRead ==
    \/ AddPageResult
    \/ ClearSession
    \/ ReadResource

SpecRead == InitRead /\ [][NextRead]_vars

\* the playwright server stores screenshots and the client reads each back
InitReport ==
    /\ variant = "playwright"
    /\ SessionAtStart
    /\ SurfaceAtStart
    /\ rt = RetryIdle
    /\ site = NoSite
    /\ nav = NavIdle
    /\ shot = ShotIdle
    /\ tool = ToolIdle

NextReport ==
    \/ ReportScreenshot
    \/ ReadReported

SpecReport == InitReport /\ [][NextReport]_vars

InitCalls ==
    /\ variant \in Variants
    /\ SessionAtStart
    /\ SurfaceAtStart
    /\ rt = RetryIdle
    /\ site = NoSite
    /\ nav = NavIdle
    /\ shot = ShotIdle
    /\ tool = ToolIdle

NextCalls ==
    \/ \E k \in Slots : CallArrive(k)
    \/ \E k \in Slots : CallStep(k)
    \/ \E k \in Slots : CallRespond(k)

SpecCalls == InitCalls /\ [][NextCalls]_vars

InitBrowser ==
    /\ variant \in BrowserVariants
    /\ SessionAtStart
    /\ SurfaceAtStart
    /\ rt = RetryIdle
    /\ site = NoSite
    /\ nav = NavIdle
    /\ shot = ShotIdle
    /\ tool = ToolIdle

NextBrowser ==
    \/ \E k \in Slots : EnsureCall(k)
    \/ \E k \in Slots : EnsureStep(k)
    \/ \E k \in Slots : Operate(k)
    \/ \E k \in Slots : Respond(k)
    \/ \E b \in Browsers : Disconnect(b)
    \/ PageError
    \/ \E p \in PageIds : PageClose(p)
    \/ ReleaseCall
    \/ ReleaseStep

SpecBrowser == InitBrowser /\ [][NextBrowser]_vars

\* the process receives a signal while one handler run may be under way.
\* The steps of the process itself happen if they stay possible; the
\* completion of a remote close is not in the hands of the process
NextShutdown ==
    \/ EnsureCall(1)
    \/ EnsureStep(1)
    \/ Respond(1)
    \/ \E b \in Browsers : Disconnect(b)
    \/ ReleaseStep
    \/ \E s \in Signals : Signal(s)
    \/ ShutdownStep
    \/ RaceClose
    \/ TimerFires

SpecShutdown ==
    /\ InitBrowser
    /\ [][NextShutdown]_vars
    /\ WF_vars(ShutdownStep)
    /\ WF_vars(TimerFires)

\* a visit or a screenshot is recorded while the process runs
RecordWhileRunning == proc.pc = "running" /\ AddPageResult

\* the process records results, some with a screenshot, and receives a signal
NextExit ==
    \/ RecordWhileRunning
    \/ EnsureCall(1)
    \/ EnsureStep(1)
    \/ ReleaseStep
    \/ \E s \in Signals : Signal(s)
    \/ ShutdownStep
    \/ RaceClose
    \/ TimerFires

SpecExit == InitBrowser /\ [][NextExit]_vars

-----------------------------------------------------------------------------
(* Claims about the session store *)

\* the last n elements of s (all of s when it is shorter)
LastN(s, n) == IF Len(s) <= n THEN s ELSE SubSeq(s, Len(s) - n + 1, Len(s))

ResultIds(sess) == [i \in 1..Len(sess.results) |-> sess.results[i].id]

\* C1: the session never holds more than MAX_RESULTS_PER_SESSION results, and
\* its results are the most recently added ones (at most the cap), in the
\* order they were added - in particular exactly the last 100 once more than
\* 100 results were added to the session.
C1_BoundedFifo ==
    currentSession # NoSession =>
        /\ Len(currentSession.results) <= MAX_RESULTS_PER_SESSION
        /\ ResultIds(currentSession) = LastN(added, MAX_RESULTS_PER_SESSION)

\* more than the cap was added to one session, so the oldest were evicted
C1_Witness ==
    /\ currentSession # NoSession
    /\ Len(added) > MAX_RESULTS_PER_SESSION
    /\ Len(currentSession.results) = MAX_RESULTS_PER_SESSION
    /\ currentSession.results[1].id = added[Len(added) - MAX_RESULTS_PER_SESSION + 1]

-----------------------------------------------------------------------------
(* Claims about the retry executor *)

RetryDone == rt.pc \in {"returned", "thrown"}

\* number of invocations of the operation that failed
Failures(log) == Cardinality({k \in 1..Len(log) : log[k].kind = "Error"})

C37_FlatDelayBetweenAttempts ==
    /\ \A j \in 1..Len(rt.waits) : rt.waits[j] = rt.waits[1]
    /\ (rt.pc = "thrown" /\ rt.retries >= 1) => Len(rt.waits) = rt.retries - 1

-----------------------------------------------------------------------------
(* Claims about the navigation safety layer *)

\* the page loaded: a response with a status below 400
PageLoaded == site.goto = "response" /\ site.status < 400

ChallengeMarkers ==
    {"challenge-running", "cf-challenge-running", "px-captcha",
     "ddos-protection", "waf-challenge-html"}

HasChallengeMarker == site.ids \cap ChallengeMarkers # {}

BenignTitle == site.title = <<"Example", "Domain">>

\* all the words of the body, wherever they are placed
BodyWords == SumFrom(site.levels, 1)

\* C6: a loaded page (status below 400) that contains one of the challenge
\* markers makes safePageNavigation fail with the bot-protection error,
\* whatever its word count and title.
C6_MarkerAlwaysRejected ==
    (nav.pc = "done" /\ PageLoaded /\ HasChallengeMarker) =>
        /\ ~nav.ok
        /\ nav.error.kind = "BotProtection"

\* a page with the Cloudflare marker, 2000 words and a benign title was rejected
C6_Witness ==
    /\ nav.pc = "done"
    /\ PageLoaded
    /\ "cf-challenge-running" \in site.ids
    /\ BodyWords >= 2000
    /\ BenignTitle
    /\ nav.error.kind = "BotProtection"

\* C7: on a loaded page without challenge marker and with a benign title,
\* safePageNavigation fails with the insufficient-content error when the body
\* text is a 5-word stub and succeeds when the body holds 2000 words, wherever
\* in the body the text is placed.
C7_ContentGate ==
    (nav.pc = "done" /\ PageLoaded /\ ~HasChallengeMarker /\ BenignTitle) =>
        /\ BodyWords = 5 => (~nav.ok /\ nav.error.kind = "InsufficientContent")
        /\ BodyWords = 2000 => nav.ok

-----------------------------------------------------------------------------
(* Claims about the screenshot budgeting *)

\* C8: every image takeScreenshotWithSizeLimit returns is at most
\* maxSizeBytes long; when no pass reaches the budget the call fails.
C8_ReturnedWithinBudget ==
    shot.pc = "returned" => shot.image.bytes <= shot.maxSizeBytes

InRange(x) == MIN_SCREENSHOT_DIMENSION <= x /\ x <= MAX_SCREENSHOT_DIMENSION

\* C9: for a page whose extent is within [100, 10000] in both dimensions,
\* every returned image is at least MIN_SCREENSHOT_DIMENSION wide and high.
C9_ReturnedAtLeastMinDim ==
    (shot.pc = "returned" /\ InRange(shot.page.w) /\ InRange(shot.page.h)) =>
        /\ shot.image.w >= MIN_SCREENSHOT_DIMENSION
        /\ shot.image.h >= MIN_SCREENSHOT_DIMENSION

\* C10: a page with a natural dimension below MIN_SCREENSHOT_DIMENSION makes
\* the call fail with the too-small error before any viewport change,
\* capture or resize.
C10_TooSmallFailsFast ==
    (shot.page.w < MIN_SCREENSHOT_DIMENSION \/ shot.page.h < MIN_SCREENSHOT_DIMENSION) =>
        /\ shot.viewportCalls = 0
        /\ shot.captures = 0
        /\ shot.resizes = 0
        /\ shot.pc \in {"idle", "measure", "thrown"}
        /\ shot.pc = "thrown" => shot.error = "TooSmall"

\* a page 50 pixels wide and 4000 high was refused
C10_Witness ==
    /\ shot.pc = "thrown"
    /\ shot.error = "TooSmall"
    /\ shot.page = [w |-> 50, h |-> 4000]

-----------------------------------------------------------------------------
(* Claims about the tool dispatcher *)

\* C4: visit_page with a URL whose scheme is neither http nor https returns
\* the validation failure, with no navigation issued and no retry.
C4_NonHttpRejectedBeforeNavigation ==
    (/\ tool.name = "visit_page"
     /\ tool.hasArguments
     /\ tool.pageAcquired
     /\ tool.protocol \notin {"http:", "https:"}) =>
        /\ tool.gotoCalls = 0
        /\ tool.attempts = 0
        /\ tool.pc = "done" => (tool.outcome = "isError" /\ tool.message = "Invalid URL")

\* C5: a tool invocation that fails ends with a result whose error flag is
\* set; the handler never rejects with a protocol-level error.
C5_FailuresAreResults ==
    tool.pc = "done" => tool.outcome \in {"result", "isError"}

-----------------------------------------------------------------------------
(* Claims about the content extraction *)

\* C11: the text extractMarkdown returns never holds the content of a script,
\* style or noscript subtree of the extracted markup, on the normal return
\* path and on the fallback taken when the markdown conversion raises.
C11_NoScriptContent ==
    ext.pc = "returned" => \A i \in 1..Len(ext.out) : ~ext.out[i].inScript

-----------------------------------------------------------------------------
(* Claims about the stored results and their screenshots *)

\* C12: every result stored in the session has a content of at most
\* MAX_CONTENT_LENGTH characters, the truncated ones with their marker included.
C12_StoredContentWithinCap ==
    \A i \in 1..Len(currentSession.results) :
        currentSession.results[i].content <= MAX_CONTENT_LENGTH

\* addResult shifts the oldest result out in this step
Evicts ==
    /\ currentSession # NoSession
    /\ currentSession' # NoSession
    /\ Len(currentSession.results) >= MAX_RESULTS_PER_SESSION
    /\ currentSession'.results # currentSession.results

\* C13: when addResult evicts the oldest result of a full session, the
\* screenshot of the evicted result is released in the same step: it is not
\* stored any more once the result has left the session.
C13_EvictionReleasesScreenshot ==
    [][Evicts => Head(currentSession.results).id \notin files']_vars

\* C14: when clearSession returns, no screenshot of a result of the session
\* it cleared is stored any more.
C14_ClearReleasesScreenshots ==
    [][(currentSession # NoSession /\ currentSession' = NoSession) =>
           \A i \in 1..Len(currentSession.results) :
               currentSession.results[i].id \notin files']_vars

-----------------------------------------------------------------------------
(* Claims about the screenshot resources *)

\* the segment is a decimal number: an optional minus sign and digits only
IsDecimalNumber(seg) ==
    LET from == IF Len(seg) >= 1 /\ seg[1] = "-" THEN 2 ELSE 1
    IN  /\ from <= Len(seg)
        /\ \A i \in from..Len(seg) : seg[i] \in DigitChars

\* the number a decimal segment denotes
DecimalValue(seg) ==
    IF seg[1] = "-" THEN 0 - ParseDigits(seg, 2, 0) ELSE ParseDigits(seg, 1, 0)

\* the index denotes a result of the session that has a screenshot
DenotesScreenshot(sess, seg) ==
    /\ IsDecimalNumber(seg)
    /\ DecimalValue(seg) >= 0
    /\ DecimalValue(seg) < Len(sess.results)
    /\ sess.results[DecimalValue(seg) + 1].screenshot # NoShot

\* C19: a read of the screenshot resource with index i is answered with an
\* error and no image when i is not a number, is negative, is not below the
\* number of results, or denotes a result without screenshot; otherwise it is
\* answered with the image of the result at position i.
C19_ReadScreenshotByIndex ==
    [][reply' # reply =>
          IF DenotesScreenshot(currentSession, reply'.segment)
          THEN /\ reply'.status = "image"
               /\ reply'.image =
                    currentSession.results[DecimalValue(reply'.segment) + 1].id
          ELSE /\ reply'.status = "error"
               /\ reply'.image = 0]_vars

-----------------------------------------------------------------------------
(* Claims about what the tools record *)

ToolSucceeded(name) ==
    tool.pc = "done" /\ tool.name = name /\ tool.outcome = "result"

\* the contents of the results, in order
Contents(results) == [i \in 1..Len(results) |-> results[i].content]

Last(seq) == seq[Len(seq)]

\* the session holds what it held when the tool was called and one result more
OneResultGained ==
    /\ Len(currentSession.results) >= 1
    /\ currentSession.results =
         LastN(Append(tool.before, Last(currentSession.results)),
               MAX_RESULTS_PER_SESSION)
    /\ \A i \in 1..Len(tool.before) :
         tool.before[i].id # Last(currentSession.results).id

\* C15: after a successful search that returned n entries the session has
\* gained exactly n results, in the returned order, each with the entry's
\* snippet as content (up to the eviction at the cap), none of them twice.
C15_SearchRecordsEntries ==
    ToolSucceeded("search_google") =>
        Contents(currentSession.results) =
            LastN(Contents(tool.before) \o tool.entries, MAX_RESULTS_PER_SESSION)

\* C16: a successful visit_page has appended exactly one result to the
\* session, whatever retries came before the success.
C16_VisitAppendsOne ==
    ToolSucceeded("visit_page") => OneResultGained

\* visit_page succeeded at the third run of its operation, with a screenshot
C16_Witness ==
    /\ ToolSucceeded("visit_page")
    /\ tool.attempts = MAX_RETRIES
    /\ tool.takeScreenshot
    /\ Len(currentSession.results) = Len(tool.before) + 1
    /\ Last(currentSession.results).screenshot = Png

\* C17: a successful take_screenshot has appended exactly one result, which
\* carries the screenshot and the placeholder content.
C17_ScreenshotAppendsOne ==
    ToolSucceeded("take_screenshot") =>
        /\ OneResultGained
        /\ Last(currentSession.results).screenshot # NoShot
        /\ Last(currentSession.results).content = PlaceholderContent

\* C18: every insertion of a result with a screenshot is followed by a
\* notification for it, and every notification comes after the insertion of
\* its result.
C18_NotifiedAfterInsertion ==
    LET tr == tool.trace IN
    /\ \A i \in 1..Len(tr) :
         (tr[i].e = "insert" /\ tr[i].shot) =>
             \E j \in (i + 1)..Len(tr) : tr[j].e = "notify" /\ tr[j].id = tr[i].id
    /\ \A j \in 1..Len(tr) :
         tr[j].e = "notify" =>
             \E i \in 1..(j - 1) : tr[i].e = "insert" /\ tr[i].id = tr[j].id

-----------------------------------------------------------------------------
(* Claims about overlapping requests *)

\* the runs of the handler that have started and not yet completed
InProgress == {k \in Slots : calls[k].pc \notin {"idle", "done"}}

\* C20: at most one tool invocation is in progress at any time: no run of the
\* handler starts (page acquisition, navigation, evaluation, capture) before
\* the previous run has completed.
C20_OneInvocationAtATime == Cardinality(InProgress) <= 1

-----------------------------------------------------------------------------
(* Claims about failures of navigation and capture *)

\* every run of the tool's operation failed at the given stage
EveryRunFailedAt(stage) ==
    /\ Len(tool.stages) >= 1
    /\ \A i \in 1..Len(tool.stages) : tool.stages[i] = stage

\* C23: when the navigation fails with a navigation error in every run,
\* visit_page has attempted the navigation exactly MAX_RETRIES times when it
\* returns, and what it returns is a failed tool result.
C23_NavigationRetriedThrice ==
    (tool.pc = "done" /\ tool.name = "visit_page" /\ EveryRunFailedAt("navigate")) =>
        /\ tool.gotoCalls = MAX_RETRIES
        /\ tool.outcome = "isError"

\* the capture was attempted and failed each time it was
CaptureAlwaysFailed ==
    /\ \E i \in 1..Len(tool.stages) : tool.stages[i] = "screenshot"
    /\ \A i \in 1..Len(tool.stages) : tool.stages[i] # "none"

\* C24: a visit_page that asked for a screenshot and whose capture failed at
\* every attempt is reported as failed, and the session holds no result for
\* the visit.
C24_CaptureFailureRecordsNothing ==
    (/\ tool.pc = "done"
     /\ tool.name = "visit_page"
     /\ tool.takeScreenshot
     /\ CaptureAlwaysFailed) =>
        /\ tool.outcome = "isError"
        /\ currentSession.results = tool.before

\* C25: a navigation answered with a status of 400 or more makes
\* safePageNavigation fail, whatever the status text, and the failure is the
\* one that carries the status code and text.
C25_ErrorStatusAlwaysFails ==
    (nav.pc = "done" /\ site.goto = "response" /\ site.status >= 400) =>
        /\ ~nav.ok
        /\ nav.error.kind = "Http"

\* C26: when page.goto itself fails with a timeout, safePageNavigation
\* returns normally instead of failing.
C26_GotoTimeoutIsSuccess ==
    (nav.pc = "done" /\ site.goto = "timeout") => nav.ok

-----------------------------------------------------------------------------
(* Claims about the resource manager and the shutdown *)

\* the browsers that were launched and are running
LiveBrowsers == {b \in Browsers : rm.state[b] = "connected"}

\* C21: whatever the interleaving of ensureBrowser calls, disconnects, page
\* errors and releases, at most one launched browser is live at any moment
\* (the current page is the one module-level reference).
C21_AtMostOneLiveBrowser == Cardinality(LiveBrowsers) <= 1

\* C22: once the process has received SIGINT or SIGTERM it eventually exits,
\* also when the close of the page or of the browser never completes.
C22_SignalLeadsToExit == (proc.signal # "none") ~> (proc.pc = "exited")

\* C27: an ensureBrowser call made after a browser disconnected returns a
\* page, and not a page of a browser that had disconnected before the call.
C27_FreshBrowserAfterDisconnect ==
    \A k \in Slots :
        (acq[k].pc = "holding" /\ acq[k].dead # {}) =>
            /\ acq[k].handle # NoRef
            /\ rm.owner[acq[k].handle] \notin acq[k].dead

\* C28: an ensureBrowser call made while the current page is closed and its
\* browser connected returns a page other than the closed one.
C28_ClosedPageReplaced ==
    \A k \in Slots :
        (acq[k].pc = "holding" /\ acq[k].shut # NoRef) =>
            /\ acq[k].handle # NoRef
            /\ acq[k].handle # acq[k].shut

\* C29: when the release function completes, the browser reference and the
\* page reference are both absent, whatever they were when it was called
\* and whether or not the closes failed.
C29_ReleaseClearsReferences ==
    [][(rel.pc # "done" /\ rel'.pc = "done") =>
           (rm'.browser = NoRef /\ rm'.page = NoRef)]_vars

\* C38: when a run of ensureBrowser fails, the browser reference and the page
\* reference are both absent afterwards, and the browser that was referred to
\* when the run failed (the one the run launched, if it launched one) is no
\* longer running.
C38_FailedAcquireLeavesCleanState ==
    [][\A k \in Slots :
          (acq[k].pc \in Awaiting /\ acq'[k].pc = "failed") =>
              /\ rm'.browser = NoRef
              /\ rm'.page = NoRef
              /\ ~Connected(rm', rm.browser)]_vars

\* C30: a handler run issues no remote operation on the page it holds once
\* the browser of that page has disconnected.
C30_NoOperationOnStaleHandle == \A k \in Slots : ~acq[k].stale

-----------------------------------------------------------------------------
(* Claims about the passes of the screenshot budgeting *)

\* C31: when the raw capture is at most maxSizeBytes long,
\* takeScreenshotWithSizeLimit returns that capture itself and runs no
\* resize pass.
C31_SmallCaptureReturnedAsIs ==
    (shot.captures = 1 /\ shot.raw # NoImage /\ shot.raw.bytes <= shot.maxSizeBytes) =>
        /\ shot.pc = "returned"
        /\ shot.isRaw
        /\ shot.image = shot.raw
        /\ shot.resizes = 0

Terminated == shot.pc \in {"returned", "thrown"}

\* C32: takeScreenshotWithSizeLimit terminates: it runs at most
\* MaxResizeAttempts passes of its size-reduction loop and at most one final
\* pass, and then returns or fails.
C32_CaptureTerminates ==
    /\ [](shot.attempts <= MaxResizeAttempts /\ shot.resizes <= MaxResizeAttempts + 1)
    /\ <>Terminated

\* all five passes of the loop and the final pass ran before the return
C32_Witness ==
    /\ shot.pc = "returned"
    /\ shot.attempts = MaxResizeAttempts
    /\ shot.resizes = MaxResizeAttempts + 1

-----------------------------------------------------------------------------
(* Claims about the live document *)

\* C33: an extraction leaves the document of the page as it was loaded: the
\* denylisted elements are still in it afterwards.
C33_LiveDocumentUnchanged == dom.live = dom.loaded

-----------------------------------------------------------------------------
(* Claims about the resource listing *)

\* C34: every screenshot resource the listing advertises for a result, read
\* in the same state of the session, is answered with the screenshot of that
\* result.
C34_ListedIndexReadsSameResult ==
    \A e \in ListedScreenshots(currentSession) :
        ReadScreenshot(currentSession, e.segment) = ReadImage(e.segment, e.id)

-----------------------------------------------------------------------------
(* Claims about the exit of the process *)

\* C36: when the process has exited after SIGINT or SIGTERM, no screenshot
\* file is left on disk and the browser it held is closed.  (index.ts keeps
\* its screenshots in memory.)
C36_ExitLeavesNoFileNoBrowser ==
    (proc.pc = "exited" /\ proc.signal # "none" /\ variant # "index") =>
        /\ files = {}
        /\ ~Connected(rm, proc.held)

\* the process has ended through a handler of SIGINT or SIGTERM
ExitedByHandler == proc.pc = "exited" /\ proc.signal # "none" /\ proc.code \in {"0", "1"}

\* C35: a process that exits with status 0 after SIGINT or SIGTERM has closed
\* the browser it held, and one that exits with status 1 has seen the close
\* fail or the cleanup deadline expire.
C35_ExitStatusReflectsCleanup ==
    ExitedByHandler =>
        /\ proc.code = "0" => ~Connected(rm, proc.held)
        /\ proc.code = "1" => proc.race \in {"rejected", "timeout"}

-----------------------------------------------------------------------------
(* Claims about the uri a tool reports *)

\* C39: the read of the screenshot uri a tool has just reported returns the
\* screenshot of the result the tool has just recorded, also when recording
\* it evicted the oldest result of a full session.
C39_ReportedUriDenotesNewResult ==
    (reply.status \in {"image", "error"} /\ added # <<>>) =>
        reply = ReadImage(reply.segment, added[Len(added)])

-----------------------------------------------------------------------------
(* Claims about failed tool invocations *)

\* C40: when search_google, visit_page or take_screenshot has returned a
\* failure, the session is what it was when the request arrived: the same
\* results, and no session where there was none.
C40_FailedToolLeavesSession ==
    (/\ tool.pc = "done"
     /\ tool.name \in KnownTools
     /\ tool.outcome \in {"isError", "protocolError"}) =>
        currentSession = tool.sessionBefore

====
